---- MODULE Spec2Model ----
(***************************************************************************)
(* A model of the GUI ReAct agent: the control loop of                     *)
(* core/agent.py (GUIReactAgent.run, _execute_step, stop, _cleanup), the   *)
(* trajectory recorder of core/memory/trajectory.py, the browser driver    *)
(* state of core/execution/action_executor.py and the planner's            *)
(* conversational context of core/llm/client.py.                           *)
(*                                                                         *)
(* Spec      one agent in browser mode, its run() calls, a second thread   *)
(*           calling stop() and a user interrupt (KeyboardInterrupt).      *)
(* TrajSpec  one Trajectory object driven directly through add_step,       *)
(*           mark_completed and mark_failed in any order.                  *)
(* ClientSpec    one ChatClient driven directly: add_*_message,            *)
(*           clear_history and the calls made through the retry wrapper.   *)
(* PerceiveSpec  one VisionPerception whose perceive() is called on every  *)
(*           kind of reply of the vision model.                            *)
(* ActionSpec    Actions made by ActionSpace.from_llm_response, by the     *)
(*           constructor and by create_type, then taken through to_dict    *)
(*           and from_dict.                                                *)
(* GroundSpec    one call of ReActPlanner.plan_with_grounding on every     *)
(*           intent, locator and outcome of the fallback.                  *)
(* DriverSpec    one PlaywrightExecutor driven directly through start,     *)
(*           execute, take_screenshot and close, and through the start of  *)
(*           the ActionExecutor in front of it, in any order.              *)
(* LocateSpec    one call of VisionPerception.locate_element on every      *)
(*           image size and every answer of the grounding model.           *)
(* ParseSpec     one call of the planner's or the perception's             *)
(*           _parse_json_response on every kind of reply text.             *)
(* TwinSpec      two runs stepping together on the same inputs, each with  *)
(*           thought texts of its own.                                     *)
(* ConcurrentSpec    two threads calling run() on one agent.               *)
(***************************************************************************)
EXTENDS Integers, Sequences, FiniteSets, TLC

\* ------------------------------------------------------------------ bounds
\* largest max_steps argument a caller passes to run()
MaxStepsArg == 3
\* the configured Config.max_steps (any positive value; 50 by default)
ConfigMaxSteps == 2
\* number of run() calls made on the agent
MaxRuns == 1
\* number of calls made on the stand-alone Trajectory
MaxTrajOps == 4
\* largest max_retries a retried call is decorated with (the program uses 3)
MaxRetries == 3
\* number of operations made on the stand-alone ChatClient
MaxClientOps == 3
\* number of calls made on the stand-alone PlaywrightExecutor
MaxDriverOps == 5
\* largest side of the small images locate_element is called on
MaxDim == 3
\* number of perceive() calls made on the stand-alone VisionPerception
MaxPerceives == 2
\* max_steps of each of the two runs made on one agent by two threads
ConcurrentMaxSteps == 2
\* max_steps of the two runs compared step by step
TwinMaxSteps == 2

\* ------------------------------------------------------------- vocabulary
\* ActionType values (actions.py); the planner result is one of them
ActionTypes == {"click_left", "click_right", "scroll_up", "scroll_down",
                "type", "wait", "stop"}
\* the action types the scenarios of the control loop draw from
PlannedTypes == {"click_left", "wait", "stop"}

None == "None"
NoTime == 0

\* the three reasons run() passes to mark_failed
ReasonMaxSteps == "max steps reached"
ReasonInterrupt == "user interrupt"

VARIABLES
    pc,               \* position of the run() call of the agent
    is_running,       \* GUIReactAgent.is_running
    current_task,     \* GUIReactAgent.current_task
    trajectory,       \* GUIReactAgent.trajectory: << >> is None, else <<t>>
    save_trajectory,  \* GUIReactAgent.save_trajectory
    on_step_callback, \* TRUE when a step callback is registered
    max_steps_arg,    \* the max_steps argument of the current run (0: None or 0)
    max_steps,        \* local max_steps of run()
    use_grounding,    \* argument use_grounding of run()
    step,             \* local step of run()
    should_stop,      \* result of _execute_step
    perception_result,
    action,           \* the Action chosen by the planner in this step
    success,          \* result of executor.execute
    exc,              \* the exception in flight or raised by run()
    executor,         \* PlaywrightExecutor: [_started, browser]
    history_messages, \* planner_client.history_messages
    clock,            \* datetime.now()
    runs,             \* run() calls made so far
    closeCalls,       \* executor.close() calls in the current run
    inputs,           \* inputs the driver performed in the current step
    stopped,          \* stop() was called during the current run
    stoppedPc,        \* where run() was when stop() was called (StopPoint)
    stoppedStep,      \* the step number when stop() was called
    interrupted,      \* a KeyboardInterrupt hit the current run
    log,              \* events of the current run, in order
    traj,             \* the stand-alone Trajectory of TrajSpec
    trajOps,          \* calls made on traj
    firstTerminal,    \* <<status, end_time>> of traj's first terminal transition
    trajCall,         \* the last call made on traj: <<method, reason>>
    wrapper,          \* position of the retried call in flight on the client
    call,             \* the retried call: [kind, max_retries, base_delay]
    retry_count,      \* local retry_count of the retry wrapper
    attempts,         \* times the wrapped function was entered in this call
    errors,           \* the exceptions its attempts raised, in order
    sleeps,           \* the delays the wrapper slept, in order
    ended,            \* << >>, <<"returned", value>> or <<"raised", exception>>
    request,          \* the message list the last attempt sent to the model
    before,           \* history_messages when the last operation began
    op,               \* the last operation made on the client
    clientOps,        \* operations made on the client
    vision_reply,     \* what the vision model answered the last perceive()
    perceived,        \* << >>, <<"returned", dict>> or <<"raised", error>>
    perceiveCalls,    \* perceive() calls made on the VisionPerception
    made,             \* << >>, <<"returned", Action>> or <<"raised", error>>
    made_by,          \* the function that made it
    made_from,        \* the argument it was given
    serialized,       \* << >> or <<to_dict(a)>> of the Action made
    restored,         \* << >> or <<from_dict(d)>> of that dict
    ground_in,        \* << >> or <<the inputs of plan_with_grounding>>
    ground_out,       \* << >> or <<its context, Action and locator calls>>
    driver,           \* a PlaywrightExecutor: [_started, browser, live]
    driverState,      \* "uninitialized", "started" or "closed"
    d_last,           \* << >> or <<the last call made on it>>
    driverOps,        \* calls made on it
    locate_in,        \* << >> or <<the image size and the model's answer>>
    located,          \* << >> or <<what locate_element returned>>
    twin,             \* two runs given the same inputs but for the thought: [a, b]
    agent_shared,     \* one agent whose run() two threads call: flags, driver, positions
    recovered         \* << >> or <<the last _parse_json_response call>>

agentVars == <<pc, is_running, current_task, trajectory, save_trajectory,
               on_step_callback, max_steps_arg, max_steps, use_grounding, step,
               should_stop, perception_result, action, success, exc, executor,
               history_messages, runs, closeCalls, inputs, stopped, stoppedPc,
               stoppedStep, interrupted, log>>
\* the agent's variables other than the planner context
agentRest == <<pc, is_running, current_task, trajectory, save_trajectory,
               on_step_callback, max_steps_arg, max_steps, use_grounding, step,
               should_stop, perception_result, action, success, exc, executor,
               runs, closeCalls, inputs, stopped, stoppedPc, stoppedStep,
               interrupted, log>>
trajVars == <<traj, trajOps, firstTerminal, trajCall>>
clientVars == <<wrapper, call, retry_count, attempts, errors, sleeps, ended,
                request, before, op, clientOps>>
visionVars == <<vision_reply, perceived, perceiveCalls>>
\* the variables of the specifications of single functions
pureVars ==
    <<made, made_by, made_from, serialized, restored, ground_in, ground_out,
      driver, driverState, d_last, driverOps, locate_in, located,
      recovered, twin, agent_shared>>
otherVars == <<trajVars, clientVars, visionVars, pureVars>>
\* the variables of the agent, of the objects driven directly and of the
\* functions specified after LocateSpec
baseVars == <<agentVars, clock, trajVars, clientVars, visionVars,
             recovered, twin, agent_shared>>
vars == <<baseVars, pureVars>>
\* the variables the specifications after LocateSpec leave alone
coreVars ==
    <<agentVars, clock, trajVars, clientVars, visionVars, made, made_by,
      made_from, serialized, restored, ground_in, ground_out, driver,
      driverState, d_last, driverOps, locate_in, located>>

\* -------------------------------------------------------------- Trajectory
NewTrajectory(task, now) ==
    [task |-> task, steps |-> << >>, start_time |-> now, end_time |-> NoTime,
     status |-> "running", file |-> << >>]

\* bool(trajectory): Trajectory defines __len__ and no __bool__, so an object
\* with no steps is falsy; None is falsy
Truthy(tr) == tr # << >> /\ Len(tr[1].steps) # 0

StepNumStale(steps) == Len(steps)
StepNum(steps) == Len(steps) + 1

AddStep(t, act, thought, perception, succ, hasShot, now) ==
    LET step_num == StepNum(t.steps)
        s == [step |-> step_num, timestamp |-> now, action |-> act,
              thought |-> thought, perception |-> perception, success |-> succ,
              screenshot_path |-> IF hasShot THEN step_num ELSE 0,
              metadata |-> << >>]
    IN [t EXCEPT !.steps = Append(@, s)]

\* save(): the document written to save_dir/trajectory.json
Save(t) ==
    [t EXCEPT !.file = << [task |-> t.task, status |-> t.status,
                           start_time |-> t.start_time, end_time |-> t.end_time,
                           total_steps |-> Len(t.steps), steps |-> t.steps] >>]

MarkCompletedSaveFirst(t, now) ==
    [Save(t) EXCEPT !.status = "completed", !.end_time = now]
MarkCompleted(t, now) ==
    Save([t EXCEPT !.status = "completed", !.end_time = now])

MarkFailed(t, reason, now) ==
    LET n == Len(t.steps)
        marked == [t EXCEPT !.status = "failed", !.end_time = now]
    IN Save(IF n # 0
            THEN [marked EXCEPT !.steps[n].metadata = <<reason>>]
            ELSE marked)

\* ------------------------------------------------------------ ChatClient
\* a message: its role and its content, the content named by the position
\* the message was appended at
Msg(role, n) == [role |-> role, content |-> n]
AddMessage(msgs, role) == Append(msgs, Msg(role, Len(msgs) + 1))

SystemOnly == <<Msg("system", 1)>>

RECURSIVE SelectRole(_, _)
SelectRole(msgs, role) ==
    IF msgs = << >> THEN << >>
    ELSE IF Head(msgs).role = role
         THEN <<Head(msgs)>> \o SelectRole(Tail(msgs), role)
         ELSE SelectRole(Tail(msgs), role)

ClearHistoryDropAll(msgs, keep_system) == << >>
ClearHistory(msgs, keep_system) ==
    IF keep_system THEN SelectRole(msgs, "system") ELSE << >>

\* ReActPlanner.reset
Reset(msgs) == ClearHistory(msgs, TRUE)

\* the calls made through the retry wrapper: send_message (the user message is
\* appended, then chat_completion), chat_completion alone, and the stateless
\* chat_completion_with_image; base_delay is 1 or 2 seconds (the program
\* uses 1.0)
Conversational(kind) == kind \in {"send", "chat"}

\* the message list chat_completion_with_image builds for its one request
OneShot == <<Msg("user", 0)>>

\* messages=... of client.chat.completions.create
RequestSharedContext(kind, msgs) == Append(msgs, Msg("user", 0))
RequestOf(kind, msgs) == IF kind = "stateless" THEN OneShot ELSE msgs

\* history_messages after one attempt of the wrapped function: only
\* chat_completion, and only after create() returned, appends the reply
AfterAttemptAlways(kind, msgs, ok) ==
    IF Conversational(kind) THEN AddMessage(msgs, "assistant") ELSE msgs
AfterAttempt(kind, msgs, ok) ==
    IF ok /\ Conversational(kind) THEN AddMessage(msgs, "assistant") ELSE msgs

\* the None of the wrapper's last line; the replies of attempts are 1, 2, ...
NoReply == 0

\* retry_openai_call: `if retry_count >= max_retries: raise e`
ExhaustedLate(rc, mr) == rc > mr
Exhausted(rc, mr) == rc >= mr

\* retry_openai_call: delay = base_delay * (2 ** (retry_count - 1))
DelayFromTwo(bd, rc) == bd * 2^rc
Delay(bd, rc) == bd * 2^(rc - 1)

\* ---------------------------------------------------------------- Planner
WaitFallback == [action_type |-> "wait", wait_time |-> 20, thought |-> "failed"]

\* ActionSpace.from_llm_response on a well-formed decision naming a
FromLLMResponse(a) ==
    [action_type |-> a, wait_time |-> IF a = "wait" THEN 10 ELSE 0,
     thought |-> "t"]

PlanOutcomes == {"ok", "bad_reply", "call_failed", "encode_failed"}

\* plan_next_action: the user message is appended before the model call, the
\* assistant message by a successful chat_completion; every failure is caught
\* and answered by Wait(2.0)
PlanNextAction(msgs, outcome, a) ==
    CASE outcome = "encode_failed" ->
           [msgs |-> msgs, action |-> WaitFallback]
      [] outcome = "call_failed" ->
           [msgs |-> AddMessage(msgs, "user"), action |-> WaitFallback]
      [] outcome = "bad_reply" ->
           [msgs |-> AddMessage(AddMessage(msgs, "user"), "assistant"),
            action |-> WaitFallback]
      [] OTHER ->
           [msgs |-> AddMessage(AddMessage(msgs, "user"), "assistant"),
            action |-> FromLLMResponse(a)]

\* plan_with_grounding: the intent request is a stateless call; only the
\* fallback to plan_next_action touches history_messages
PlanWithGrounding(msgs, g, outcome, a) ==
    CASE g = "intent" ->
           [msgs |-> msgs,
            action |-> [action_type |-> IF a = "stop" THEN "stop" ELSE "wait",
                        wait_time |-> IF a = "stop" THEN 0 ELSE 20,
                        thought |-> "t"]]
      [] g = "located" ->
           [msgs |-> msgs,
            action |-> [action_type |-> "click_left", wait_time |-> 0,
                        thought |-> "t"]]
      [] g = "intent_failed" ->
           [msgs |-> msgs, action |-> WaitFallback]
      [] OTHER -> PlanNextAction(msgs, outcome, a)

\* ------------------------------------------------------------------ Init
NoAction == [action_type |-> None, wait_time |-> 0, thought |-> None]
NoPerception == [is_task_complete |-> FALSE, error_detected |-> FALSE]

AgentInit ==
    /\ pc = "idle"
    /\ is_running = FALSE
    /\ current_task = None
    /\ trajectory = << >>
    /\ max_steps_arg = 0
    /\ max_steps = 0
    /\ use_grounding = FALSE
    /\ step = 0
    /\ should_stop = FALSE
    /\ perception_result = NoPerception
    /\ action = NoAction
    /\ success = FALSE
    /\ exc = None
    /\ executor = [started |-> FALSE, browser |-> FALSE]
    /\ history_messages = SystemOnly
    /\ runs = 0
    /\ closeCalls = 0
    /\ inputs = 0
    /\ stopped = FALSE
    /\ stoppedPc = None
    /\ stoppedStep = 0
    /\ interrupted = FALSE
    /\ log = << >>

TrajIdle ==
    /\ traj = NewTrajectory("task", 0)
    /\ trajOps = 0
    /\ firstTerminal = << >>
    /\ trajCall = << >>

\* ------------------------------------------------------- VisionPerception
\* what json.loads makes of a text: a JSON object, another JSON value
\* (number, string, list, ...), or a JSONDecodeError
Parsed == {"object", "scalar", "invalid"}

\* the objects a reply may encode: with the keys the prompt asks for, or
\* without them
ReplyObjects ==
    {[is_task_complete |-> c, error_detected |-> e] :
        c \in BOOLEAN, e \in {None, "page error"}}
    \cup {[scene_description |-> "a page"]}

\* a reply text, by what each stage of _parse_json_response finds in it: the
\* whole text, the first fenced block, the text from the first { to the last }
\* (which, when it parses, is an object); obj is the object it encodes
Replies ==
    {r \in [whole : Parsed, fenced : Parsed \cup {"absent"},
            braces : {"object", "invalid", "absent"}, obj : ReplyObjects] :
        /\ r.whole = "object" => r.braces = "object"
        /\ r.fenced = "object" => r.braces # "absent"}

\* _parse_json_response of the perception: the value of the first stage
\* that parses, else the reply wrapped as raw_response
ParseJsonResponse(r) ==
    IF r.whole # "invalid" THEN [type |-> r.whole, dict |-> r.obj]
    ELSE IF r.fenced \notin {"absent", "invalid"}
         THEN [type |-> r.fenced, dict |-> r.obj]
    ELSE IF r.braces \notin {"absent", "invalid"}
         THEN [type |-> r.braces, dict |-> r.obj]
    ELSE [type |-> "object", dict |-> [raw_response |-> r]]

\* the dict of perceive's except branch
Degraded(error) ==
    [scene_description |-> "perception failed", interactive_elements |-> << >>,
     current_state |-> "unknown", is_task_complete |-> FALSE,
     error_detected |-> error, suggestions |-> <<"retry perception">>]

\* perceive after the model call returned the text r: result.get on a value
\* that is no dict raises AttributeError, caught by `except Exception`
PerceiveReply(r) ==
    IF ParseJsonResponse(r).type # "object" THEN Degraded("AttributeError")
    ELSE ParseJsonResponse(r).dict

\* dict.get(key, default)
Get(d, key, default) == IF key \in DOMAIN d THEN d[key] ELSE default

\* ----------------------------------------------------------------- Action
\* Optional[...]: None, or a value
Nothing == << >>
Some(v) == <<v>>

\* class ActionType(Enum): members and their values; member.value is
\* ActionTypeMembers[member]
ActionTypeMembers ==
    [CLICK_LEFT |-> "click_left", CLICK_RIGHT |-> "click_right",
     SCROLL_UP |-> "scroll_up", SCROLL_DOWN |-> "scroll_down",
     TYPE |-> "type", WAIT |-> "wait", STOP |-> "stop"]

\* the dataclass constructor: it stores what it is given
Action(action_type, coordinates, text, scroll_amount, wait_time, thought, metadata) ==
    [action_type |-> action_type, coordinates |-> coordinates, text |-> text,
     scroll_amount |-> scroll_amount, wait_time |-> wait_time,
     thought |-> thought, metadata |-> metadata]

create_click_left(x, y, thought) ==
    Action("CLICK_LEFT", Some(<<x, y>>), Nothing, Nothing, Nothing, thought,
           << >>)
create_click_right(x, y, thought) ==
    Action("CLICK_RIGHT", Some(<<x, y>>), Nothing, Nothing, Nothing, thought,
           << >>)
create_scroll_up(amount, thought) ==
    Action("SCROLL_UP", Nothing, Nothing, Some(amount), Nothing, thought,
           << >>)
create_scroll_down(amount, thought) ==
    Action("SCROLL_DOWN", Nothing, Nothing, Some(amount), Nothing, thought,
           << >>)
create_type(text, coordinates, thought) ==
    Action("TYPE", coordinates, text, Nothing, Nothing, thought, << >>)
create_wait(seconds, thought) ==
    Action("WAIT", Nothing, Nothing, Nothing, Some(seconds), thought,
           << >>)
create_stop(thought) ==
    Action("STOP", Nothing, Nothing, Nothing, Nothing, thought, << >>)

\* to_dict: the enum member becomes its value, the other fields are copied
to_dict(a) ==
    [action_type |-> ActionTypeMembers[a.action_type],
     coordinates |-> a.coordinates, text |-> a.text,
     scroll_amount |-> a.scroll_amount, wait_time |-> a.wait_time,
     thought |-> a.thought, metadata |-> a.metadata]

\* from_dict: ActionType(data["action_type"]), and
\* tuple(data["coordinates"]) if data.get("coordinates") else None, where
\* None and () are false
from_dict(data) ==
    Action(CHOOSE m \in DOMAIN ActionTypeMembers :
               ActionTypeMembers[m] = data.action_type,
           IF data.coordinates # Nothing /\ data.coordinates[1] # << >>
           THEN Some(data.coordinates[1]) ELSE Nothing,
           data.text, data.scroll_amount, data.wait_time, data.thought,
           data.metadata)

\* a JSON value of the reply: its type and its value (a float in tenths)
Val(t, v) == [t |-> t, v |-> v]

\* the outcome of a call: a value, or an exception
Returned(v) == <<"returned", v>>
Raised(e) == <<"raised", e>>

\* int(v): a float is truncated, a text that is no number and None raise
IntOf(val) ==
    CASE val.t = "int" -> Returned(val.v)
      [] val.t = "float" -> Returned(val.v \div 10)
      [] val.t = "str" -> Raised("ValueError")
      [] OTHER -> Raised("TypeError")
\* float(v), in tenths
FloatOf(val) ==
    CASE val.t = "int" -> Returned(val.v * 10)
      [] val.t = "float" -> Returned(val.v)
      [] val.t = "str" -> Raised("ValueError")
      [] OTHER -> Raised("TypeError")
\* str(v): never raises
StrOf(val) ==
    CASE val.t = "str" -> val.v
      [] val.t = "int" -> ToString(val.v)
      [] OTHER -> "None"

\* an action name: its letters, and the positions written in upper case
Name(letters, caps) == [letters |-> letters, caps |-> caps]
\* str.lower()
LowerIdentity(n) == n
Lower(n) == [n EXCEPT !.caps = {}]
\* dict.get(key, default) on a dict holding Some(value) under the keys the
\* reply gave
OptGet(d, key, default) ==
    IF key \notin DOMAIN d \/ d[key] = Nothing THEN default ELSE d[key][1]

\* ActionSpace.from_llm_response
from_llm_response(response) ==
    LET action_name ==
            Lower(IF response.action = Nothing THEN Name("", {})
                  ELSE response.action[1])
        params == response.parameters
        thought == response.thought
        x == IntOf(OptGet(params, "x", Val("int", 0)))
        y == IntOf(OptGet(params, "y", Val("int", 0)))
        amount == IntOf(OptGet(params, "amount", Val("int", 300)))
        seconds == FloatOf(OptGet(params, "seconds", Val("float", 10)))
        text == StrOf(OptGet(params, "text", Val("str", "")))
        both == params.x # Nothing /\ params.y # Nothing
    IN  CASE action_name = Name("click_left", {}) ->
                IF x[1] = "raised" THEN x
                ELSE IF y[1] = "raised" THEN y
                ELSE Returned(create_click_left(x[2], y[2], thought))
          [] action_name = Name("click_right", {}) ->
                IF x[1] = "raised" THEN x
                ELSE IF y[1] = "raised" THEN y
                ELSE Returned(create_click_right(x[2], y[2], thought))
          [] action_name = Name("scroll_up", {}) ->
                IF amount[1] = "raised" THEN amount
                ELSE Returned(create_scroll_up(amount[2], thought))
          [] action_name = Name("scroll_down", {}) ->
                IF amount[1] = "raised" THEN amount
                ELSE Returned(create_scroll_down(amount[2], thought))
          [] action_name = Name("type", {}) ->
                IF both /\ x[1] = "raised" THEN x
                ELSE IF both /\ y[1] = "raised" THEN y
                ELSE Returned(create_type(
                         Some(text),
                         IF both THEN Some(<<x[2], y[2]>>) ELSE Nothing,
                         thought))
          [] action_name = Name("wait", {}) ->
                IF seconds[1] = "raised" THEN seconds
                ELSE Returned(create_wait(seconds[2], thought))
          [] action_name = Name("stop", {}) -> Returned(create_stop(thought))
          [] OTHER -> Raised("ValueError")

\* ---------------------------------------------- plan_with_grounding
\* `if element_locator and target_element`
GroundedAnyTarget(element_locator, target_element) == element_locator # Nothing
Grounded(element_locator, target_element) ==
    element_locator # Nothing /\ target_element # ""

\* what plan_with_grounding leaves: the context, the Action returned and
\* the target_elements the locator was called with
GroundResult(msgs, a, calls) ==
    [msgs |-> msgs, action |-> a, located |-> calls]

\* ReActPlanner.plan_with_grounding. intent_reply is the outcome of the
\* stateless intent call and its parse; element_locator is None or a
\* function, given by the outcome of calling it; outcome and a decide the
\* plan_next_action call of the fallback
plan_with_grounding(msgs, intent_reply, element_locator, plan_outcome, a) ==
    LET failed == create_wait(20, Some("failed"))
    IN  IF intent_reply[1] = "raised"
        THEN GroundResult(msgs, failed, << >>)
        ELSE
        LET intent == intent_reply[2]
            action_type == OptGet(intent, "action_type", "wait")
            thought == intent.thought
            target_element == OptGet(intent, "target_element", "")
            text == OptGet(intent, "text_to_type", "")
            direct == PlanNextAction(msgs, plan_outcome, a)
        IN  CASE action_type = "stop" ->
                    GroundResult(msgs, create_stop(thought), << >>)
              [] action_type = "wait" ->
                    GroundResult(msgs, create_wait(20, thought), << >>)
              [] action_type = "scroll_up" ->
                    GroundResult(msgs, create_scroll_up(300, thought), << >>)
              [] action_type = "scroll_down" ->
                    GroundResult(msgs, create_scroll_down(300, thought), << >>)
              [] OTHER ->
                    IF Grounded(element_locator, target_element)
                    THEN LET coords == element_locator[1]
                             called == <<target_element>>
                         IN  IF coords[1] = "raised"
                             THEN GroundResult(msgs, failed, called)
                             ELSE IF coords[2] # Nothing
                                     /\ action_type = "click_left"
                             THEN GroundResult(msgs,
                                      create_click_left(coords[2][1][1],
                                                        coords[2][1][2],
                                                        thought),
                                      called)
                             ELSE IF coords[2] # Nothing /\ action_type = "type"
                             THEN GroundResult(msgs,
                                      create_type(Some(text), coords[2],
                                                  thought),
                                      called)
                             ELSE GroundResult(direct.msgs, direct.action,
                                               called)
                    ELSE GroundResult(direct.msgs, direct.action, << >>)

\* ------------------------------------------------- PlaywrightExecutor
\* what a call leaves: the executor, the call's outcome and the number of
\* mouse or keyboard inputs it made on the page
DriverResult(d, result, input) ==
    [driver |-> d, result |-> result, input |-> input]

\* start(url): fails_at is where it raises, "launch", "goto" or "none";
\* _started is set after page.goto
start(d, fails_at) ==
    CASE fails_at = "launch" -> DriverResult(d, Raised("playwright"), 0)
      [] fails_at = "goto" ->
            DriverResult([d EXCEPT !.browser = TRUE, !.live = TRUE],
                         Raised("playwright"), 0)
      [] OTHER ->
            DriverResult([started |-> TRUE, browser |-> TRUE, live |-> TRUE],
                         Returned(None), 0)

\* execute(action): the precondition is tested outside the try; an action
\* that raises is answered by False; wait and stop make no input on the
\* page
execute(d, action_type, raises) ==
    LET touches_page == action_type \notin {"WAIT", "STOP"}
    IN  IF ~d.started THEN DriverResult(d, Raised("RuntimeError"), 0)
        ELSE IF touches_page /\ (raises \/ ~d.live)
        THEN DriverResult(d, Returned(FALSE), 0)
        ELSE DriverResult(d, Returned(TRUE), IF touches_page THEN 1 ELSE 0)

\* ActionExecutor.start(url) in browser mode: the driver's start is called
\* only for a truthy url; None and "" return without a call
ActionExecutor_start(d, url, fails_at) ==
    IF url \notin {None, ""} THEN start(d, fails_at)
    ELSE DriverResult(d, Returned(None), 0)

\* take_screenshot(): the same precondition; page.screenshot() is not
\* guarded
take_screenshot(d, raises) ==
    IF ~d.started THEN DriverResult(d, Raised("RuntimeError"), 0)
    ELSE IF raises \/ ~d.live THEN DriverResult(d, Raised("playwright"), 0)
    ELSE DriverResult(d, Returned("image"), 0)

\* close(): browser.close(), playwright.stop(), then _started = False
closeKeepsStarted(d, raises) ==
    IF d.browser /\ raises
    THEN DriverResult([d EXCEPT !.live = FALSE], Raised("playwright"), 0)
    ELSE DriverResult([d EXCEPT !.live = FALSE], Returned(None), 0)
close(d, raises) ==
    IF d.browser /\ raises
    THEN DriverResult([d EXCEPT !.live = FALSE], Raised("playwright"), 0)
    ELSE DriverResult([d EXCEPT !.live = FALSE, !.started = FALSE],
                      Returned(None), 0)

\* ------------------------------------ VisionPerception.locate_element
\* lines 178-179: max(0, min(x, width - 1))
ClampToSize(v, size) ==
    LET inner == IF v <= size THEN v ELSE size
    IN  IF 0 >= inner THEN 0 ELSE inner
Clamp(v, size) ==
    LET inner == IF v <= size - 1 THEN v ELSE size - 1
    IN  IF 0 >= inner THEN 0 ELSE inner

\* locate_element on an image of width x height; reply is the outcome of
\* the grounding call. Returns None (Nothing) or Some(<<x, y>>): every
\* exception of the try is answered by None
locate_element(width, height, reply) ==
    IF reply[1] # "returned" THEN Nothing
    ELSE
    LET result == ParseJsonResponse(reply[2])
    IN  IF result.type # "object" THEN Nothing
        ELSE IF OptGet(result.dict, "found", FALSE)
        THEN LET x == IntOf(OptGet(result.dict, "x", Val("int", 0)))
                 y == IntOf(OptGet(result.dict, "y", Val("int", 0)))
             IN  IF x[1] = "raised" \/ y[1] = "raised" THEN Nothing
                 ELSE Some(<<Clamp(x[2], width), Clamp(y[2], height)>>)
        ELSE Nothing

\* the functions checked on their own were not called; the
\* PlaywrightExecutor driven directly is as __init__ leaves it: no browser
\* object, not started (live is whether the browser process answers)
\* ------------------------------------------- one iteration of run()'s loop
\* _execute_step on a run [step, log, ended]: a perception reporting
\* completion returns True before planning; plan_next_action answers a reply
\* from_llm_response cannot convert by Wait(2.0); the action is executed with
\* the outcome ok; the step asks to stop when the action is stop, and the
\* loop ends at max_steps
execute_step_reads_thought(run, complete, response, ok) ==
    LET made_action == from_llm_response(response)
        act == IF made_action[1] = "returned" THEN made_action[2]
               ELSE create_wait(20, Some("planning failed"))
    IN  IF run.ended # None THEN run
        ELSE IF complete
        THEN [run EXCEPT !.step = @ + 1, !.ended = "complete"]
        ELSE [step |-> run.step + 1,
              log |-> Append(run.log, [action |-> act, success |-> ok]),
              ended |-> IF act.action_type = "STOP" \/ act.thought = Some("stop")
                        THEN "stop"
                        ELSE IF run.step + 1 >= TwinMaxSteps THEN "max_steps"
                        ELSE None]
execute_step(run, complete, response, ok) ==
    LET made_action == from_llm_response(response)
        act == IF made_action[1] = "returned" THEN made_action[2]
               ELSE create_wait(20, Some("planning failed"))
    IN  IF run.ended # None THEN run
        ELSE IF complete
        THEN [run EXCEPT !.step = @ + 1, !.ended = "complete"]
        ELSE [step |-> run.step + 1,
              log |-> Append(run.log, [action |-> act, success |-> ok]),
              ended |-> IF act.action_type = "STOP" THEN "stop"
                        ELSE IF run.step + 1 >= TwinMaxSteps THEN "max_steps"
                        ELSE None]

\* ------------------------------------------------ _parse_json_response
\* the JSON values a model reply may encode: three objects and a list
JsonValues ==
    {Val("object", [action |-> "stop"]),
     Val("object", [action |-> "click_left"]),
     Val("object", [is_task_complete |-> TRUE]), Val("list", 1)}

\* a reply text, by what each stage finds in it: json.loads of the whole
\* text; whether the fence pattern matches and json.loads of its group 1;
\* whether the pattern from the first { to the last } matches and json.loads
\* of the match, an object when it parses. A text that is an object as a whole is
\* its own span from { to }.
ReplyTexts ==
    {r \in [whole : JsonValues \cup {Val("invalid", 0)},
            fenced : JsonValues \cup {Val("invalid", 0), Val("absent", 0)},
            braces : {v \in JsonValues : v.t = "object"}
                     \cup {Val("invalid", 0), Val("absent", 0)}] :
        r.whole.t = "object" => r.braces = r.whole}

\* the value returned when no stage parsed: the planner's decision
\* (planner.py:297-301), the perception's wrapped reply (vision_model.py:270)
Default(caller, response) ==
    IF caller = "planner"
    THEN Val("object", [thought |-> "parse failed", action |-> "wait",
                        parameters |-> [seconds |-> 2]])
    ELSE Val("object", [raw_response |-> response])

\* _parse_json_response(response): value is what it returns, tried the
\* stages whose json.loads was called, in order
parse_json_response_last_wins(caller, response) ==
    LET loads2 == IF response.fenced.t = "absent" THEN << >> ELSE <<2>>
        loads3 == IF response.braces.t = "absent" THEN << >> ELSE <<3>>
        tried == <<1>> \o loads2 \o loads3
    IN  IF response.braces.t \notin {"invalid", "absent"}
        THEN [value |-> response.braces, tried |-> tried]
        ELSE IF response.fenced.t \notin {"invalid", "absent"}
        THEN [value |-> response.fenced, tried |-> tried]
        ELSE IF response.whole.t # "invalid"
        THEN [value |-> response.whole, tried |-> tried]
        ELSE [value |-> Default(caller, response), tried |-> tried]
parse_json_response(caller, response) ==
    LET loads2 == IF response.fenced.t = "absent" THEN << >> ELSE <<2>>
        loads3 == IF response.braces.t = "absent" THEN << >> ELSE <<3>>
    IN  IF response.whole.t # "invalid"
        THEN [value |-> response.whole, tried |-> <<1>>]
        ELSE IF response.fenced.t \notin {"invalid", "absent"}
        THEN [value |-> response.fenced, tried |-> <<1, 2>>]
        ELSE IF response.braces.t \notin {"invalid", "absent"}
        THEN [value |-> response.braces, tried |-> <<1>> \o loads2 \o <<3>>]
        ELSE [value |-> Default(caller, response),
              tried |-> <<1>> \o loads2 \o loads3]

PureIdle ==
    /\ made = Nothing
    /\ made_by = None
    /\ made_from = Nothing
    /\ serialized = Nothing
    /\ restored = Nothing
    /\ ground_in = Nothing
    /\ ground_out = Nothing
    /\ driver = [started |-> FALSE, browser |-> FALSE, live |-> FALSE]
    /\ driverState = "uninitialized"
    /\ d_last = Nothing
    /\ driverOps = 0
    /\ locate_in = Nothing
    /\ located = Nothing
    /\ recovered = Nothing
    /\ twin = [a |-> [step |-> 0, log |-> << >>, ended |-> None],
               b |-> [step |-> 0, log |-> << >>, ended |-> None]]
    /\ agent_shared = [is_running |-> FALSE, current_task |-> None,
                       started |-> FALSE, pc |-> <<"idle", "idle">>,
                       step |-> <<0, 0>>, calls |-> << >>]

\* a VisionPerception that was not called yet
VisionIdle ==
    /\ vision_reply = << >>
    /\ perceived = << >>
    /\ perceiveCalls = 0

\* a ChatClient with no retried call in flight
NoCall == [kind |-> None, max_retries |-> 0, base_delay |-> 0]

ClientIdle ==
    /\ wrapper = "idle"
    /\ call = NoCall
    /\ retry_count = 0
    /\ attempts = 0
    /\ errors = << >>
    /\ sleeps = << >>
    /\ ended = << >>
    /\ request = << >>
    /\ before = << >>
    /\ op = None
    /\ clientOps = 0

Init ==
    /\ AgentInit
    /\ save_trajectory \in BOOLEAN
    /\ on_step_callback \in BOOLEAN
    /\ clock = 1
    /\ TrajIdle
    /\ ClientIdle
    /\ VisionIdle
    /\ PureIdle

\* the initial state of the specifications of single functions
PureInit ==
    /\ AgentInit
    /\ save_trajectory = TRUE
    /\ on_step_callback = FALSE
    /\ clock = 1
    /\ TrajIdle
    /\ ClientIdle
    /\ VisionIdle
    /\ PureIdle

\* ------------------------------------------------------ GUIReactAgent.run
Terminal == {"returned", "raised"}
TryBody == {"start", "loop", "screenshot", "perceive", "plan", "execute",
            "record", "callback", "step_ret", "sleep", "after_loop"}

\* the part of run() a position belongs to, as seen by a caller of stop()
StopPoint(p) ==
    CASE p = "entry" -> "entry"
      [] p \in {"traj_init", "start"} -> "setup"
      [] p \in {"screenshot", "perceive", "plan", "execute", "record",
                "callback", "step_ret"} -> "step"
      [] p = "sleep" -> "sleep"
      [] p = "loop" -> "loop"
      [] OTHER -> "exit"

Logged(e) == log' = Append(log, e)

\* a caller invokes run(task, start_url, max_steps = n, use_grounding = g);
\* n = 0 stands for both None and 0, which `max_steps or ...` treats alike
Call(n, g) ==
    /\ pc \in {"idle"} \cup Terminal
    /\ runs < MaxRuns
    /\ runs' = runs + 1
    /\ pc' = "entry"
    /\ max_steps_arg' = n
    /\ use_grounding' = g
    /\ step' = 0
    /\ should_stop' = FALSE
    /\ perception_result' = NoPerception
    /\ action' = NoAction
    /\ success' = FALSE
    /\ exc' = None
    /\ closeCalls' = 0
    /\ inputs' = 0
    /\ stopped' = FALSE
    /\ stoppedPc' = None
    /\ stoppedStep' = 0
    /\ interrupted' = FALSE
    /\ log' = << >>
    /\ UNCHANGED <<is_running, current_task, trajectory, save_trajectory,
                   on_step_callback, max_steps, executor, history_messages,
                   clock, otherVars>>

\* lines 89-91
RunEntry ==
    /\ pc = "entry"
    /\ max_steps' = IF max_steps_arg # 0 THEN max_steps_arg ELSE ConfigMaxSteps
    /\ current_task' = "task"
    /\ is_running' = TRUE
    /\ pc' = "traj_init"
    /\ UNCHANGED <<trajectory, save_trajectory, on_step_callback, max_steps_arg,
                   use_grounding, step, should_stop, perception_result, action,
                   success, exc, executor, history_messages, clock, runs,
                   closeCalls, inputs, stopped, stoppedPc, stoppedStep,
                   interrupted, log, otherVars>>

\* line 94: Trajectory(task) creates its directories and may raise; it runs
\* before the try statement, so the exception leaves run() at once
TrajectoryInit ==
    /\ pc = "traj_init"
    /\ \/ /\ save_trajectory
          /\ trajectory' = <<NewTrajectory(current_task, clock)>>
          /\ clock' = clock + 1
          /\ pc' = "start"
          /\ UNCHANGED <<exc, log>>
       \/ /\ save_trajectory
          /\ exc' = "traj_init"
          /\ pc' = "raised"
          /\ Logged("raise")
          /\ UNCHANGED <<trajectory, clock>>
       \/ /\ ~save_trajectory
          /\ trajectory' = << >>
          /\ pc' = "start"
          /\ UNCHANGED <<exc, log, clock>>
    /\ UNCHANGED <<is_running, current_task, save_trajectory, on_step_callback,
                   max_steps_arg, max_steps, use_grounding, step, should_stop,
                   perception_result, action, success, executor,
                   history_messages, runs, closeCalls, inputs, stopped,
                   stoppedPc, stoppedStep, interrupted, otherVars>>

\* lines 102-105: executor.start(url); PlaywrightExecutor.start sets _started
\* last, after launch, new_page and goto, each of which may raise
Start ==
    /\ pc = "start"
    /\ \/ /\ executor' = [started |-> TRUE, browser |-> TRUE]
          /\ pc' = "loop"
          /\ Logged("start")
          /\ UNCHANGED exc
       \/ \E b \in BOOLEAN :
            /\ executor' = [started |-> executor.started,
                            browser |-> b \/ executor.browser]
            /\ exc' = "start"
            /\ pc' = "except"
            /\ Logged("start")
    /\ UNCHANGED <<is_running, current_task, trajectory, save_trajectory,
                   on_step_callback, max_steps_arg, max_steps, use_grounding,
                   step, should_stop, perception_result, action, success,
                   history_messages, clock, runs, closeCalls, inputs, stopped,
                   stoppedPc, stoppedStep, interrupted, otherVars>>

\* lines 109-110: the loop condition and the increment of step
LoopCheck ==
    /\ pc = "loop"
    /\ IF step < max_steps /\ is_running
       THEN /\ step' = step + 1
            /\ pc' = "screenshot"
       ELSE /\ pc' = "after_loop"
            /\ UNCHANGED step
    /\ UNCHANGED <<is_running, current_task, trajectory, save_trajectory,
                   on_step_callback, max_steps_arg, max_steps, use_grounding,
                   should_stop, perception_result, action, success, exc,
                   executor, history_messages, clock, runs, closeCalls, inputs,
                   stopped, stoppedPc, stoppedStep, interrupted, log, otherVars>>

\* ------------------------------------------- GUIReactAgent._execute_step
\* the locals of _execute_step end with its frame, by return or by exception
FrameLeft ==
    /\ perception_result' = NoPerception
    /\ action' = NoAction
    /\ success' = FALSE
    /\ inputs' = 0

\* line 165: take_screenshot raises when the driver is not started or when
\* the capture fails; nothing in _execute_step catches it
Screenshot ==
    /\ pc = "screenshot"
    /\ Logged("screenshot")
    /\ \/ /\ executor.started
          /\ pc' = "perceive"
          /\ UNCHANGED exc
       \/ /\ exc' = IF executor.started THEN "screenshot" ELSE "not_started"
          /\ pc' = "except"
    /\ UNCHANGED <<is_running, current_task, trajectory, save_trajectory,
                   on_step_callback, max_steps_arg, max_steps, use_grounding,
                   step, should_stop, perception_result, action, success,
                   executor, history_messages, clock, runs, closeCalls, inputs,
                   stopped, stoppedPc, stoppedStep, interrupted, otherVars>>

\* lines 166-174: perceive never raises; a failed call gives the degraded
\* result. A result reporting completion ends the step before planning
Perceive ==
    /\ pc = "perceive"
    /\ Logged("perceive")
    /\ \E p \in {[is_task_complete |-> c, error_detected |-> FALSE] :
                    c \in BOOLEAN}
              \cup {[is_task_complete |-> FALSE, error_detected |-> TRUE]} :
         /\ perception_result' = p
         /\ IF p.is_task_complete
            THEN /\ should_stop' = TRUE
                 /\ pc' = "step_ret"
            ELSE /\ pc' = "plan"
                 /\ UNCHANGED should_stop
    /\ UNCHANGED <<is_running, current_task, trajectory, save_trajectory,
                   on_step_callback, max_steps_arg, max_steps, use_grounding,
                   step, action, success, exc, executor, history_messages,
                   clock, runs, closeCalls, inputs, stopped, stoppedPc,
                   stoppedStep, interrupted, otherVars>>

\* lines 178-194
Plan ==
    /\ pc = "plan"
    /\ Logged("plan")
    /\ \E o \in PlanOutcomes, a \in PlannedTypes :
         \/ /\ ~use_grounding
            /\ history_messages' = PlanNextAction(history_messages, o, a).msgs
            /\ action' = PlanNextAction(history_messages, o, a).action
         \/ /\ use_grounding
            /\ \E g \in {"intent", "located", "fallback", "intent_failed"} :
                 /\ history_messages' =
                        PlanWithGrounding(history_messages, g, o, a).msgs
                 /\ action' = PlanWithGrounding(history_messages, g, o, a).action
    /\ pc' = "execute"
    /\ UNCHANGED <<is_running, current_task, trajectory, save_trajectory,
                   on_step_callback, max_steps_arg, max_steps, use_grounding,
                   step, should_stop, perception_result, success, exc, executor,
                   clock, runs, closeCalls, inputs, stopped, stoppedPc,
                   stoppedStep, interrupted, otherVars>>

\* PlaywrightExecutor.execute: Stop and Wait perform no input; an exception
\* of any other action is caught and answered by False
NoInput == {"stop", "wait"}

\* line 202
Execute ==
    /\ pc = "execute"
    /\ Logged("execute")
    /\ IF ~executor.started
       THEN /\ exc' = "not_started"
            /\ pc' = "except"
            /\ UNCHANGED <<success, inputs>>
       ELSE /\ \/ /\ success' = TRUE
                  /\ inputs' = IF action.action_type \in NoInput
                               THEN inputs ELSE inputs + 1
               \/ /\ action.action_type \notin NoInput
                  /\ success' = FALSE
                  /\ inputs' = inputs + 1
            /\ pc' = "record"
            /\ UNCHANGED exc
    /\ UNCHANGED <<is_running, current_task, trajectory, save_trajectory,
                   on_step_callback, max_steps_arg, max_steps, use_grounding,
                   step, should_stop, perception_result, action, executor,
                   history_messages, clock, runs, closeCalls, stopped,
                   stoppedPc, stoppedStep, interrupted, otherVars>>

\* lines 210-217: add_step is guarded by `if self.trajectory:`
Record ==
    /\ pc = "record"
    /\ IF Truthy(trajectory)
       THEN /\ trajectory' = <<AddStep(trajectory[1], action.action_type,
                                       action.thought, perception_result,
                                       success, TRUE, clock)>>
            /\ clock' = clock + 1
            /\ Logged("record")
       ELSE UNCHANGED <<trajectory, clock, log>>
    /\ pc' = "callback"
    /\ UNCHANGED <<is_running, current_task, save_trajectory, on_step_callback,
                   max_steps_arg, max_steps, use_grounding, step, should_stop,
                   perception_result, action, success, exc, executor,
                   history_messages, runs, closeCalls, inputs, stopped,
                   stoppedPc, stoppedStep, interrupted, otherVars>>

\* lines 220-227: the callback, whose exception is not caught, then the
\* Stop test that gives the result of the step
Callback ==
    /\ pc = "callback"
    /\ \/ /\ on_step_callback
          /\ Logged("callback")
          /\ exc' = "callback"
          /\ pc' = "except"
          /\ UNCHANGED should_stop
       \/ /\ IF on_step_callback THEN Logged("callback") ELSE UNCHANGED log
          /\ should_stop' = (action.action_type = "stop")
          /\ pc' = "step_ret"
          /\ UNCHANGED exc
    /\ UNCHANGED <<is_running, current_task, trajectory, save_trajectory,
                   on_step_callback, max_steps_arg, max_steps, use_grounding,
                   step, perception_result, action, success, executor,
                   history_messages, clock, runs, closeCalls, inputs, stopped,
                   stoppedPc, stoppedStep, interrupted, otherVars>>

\* lines 117-121: the result of the step; break when it asks to stop
StepReturn ==
    /\ pc = "step_ret"
    /\ pc' = IF should_stop THEN "after_loop" ELSE "sleep"
    /\ FrameLeft
    /\ UNCHANGED <<is_running, current_task, trajectory, save_trajectory,
                   on_step_callback, max_steps_arg, max_steps, use_grounding,
                   step, should_stop, exc,
                   executor, history_messages, clock, runs, closeCalls,
                   stopped, stoppedPc, stoppedStep, interrupted, log, otherVars>>

\* line 124
Sleep ==
    /\ pc = "sleep"
    /\ pc' = "loop"
    /\ UNCHANGED <<is_running, current_task, trajectory, save_trajectory,
                   on_step_callback, max_steps_arg, max_steps, use_grounding,
                   step, should_stop, perception_result, action, success, exc,
                   executor, history_messages, clock, runs, closeCalls, inputs,
                   stopped, stoppedPc, stoppedStep, interrupted, log, otherVars>>

\* what the handlers of run() leave alone
HandlerFrame ==
    UNCHANGED <<is_running, current_task, save_trajectory, on_step_callback,
                max_steps_arg, max_steps, use_grounding, step, should_stop,
                executor, history_messages, runs, closeCalls, stopped,
                stoppedPc, stoppedStep, interrupted, otherVars>>

\* lines 127-132: each mark is guarded by the truth value of the trajectory
AfterLoop ==
    /\ pc = "after_loop"
    /\ IF step >= max_steps
       THEN IF Truthy(trajectory)
            THEN /\ trajectory' = <<MarkFailed(trajectory[1], ReasonMaxSteps,
                                               clock)>>
                 /\ clock' = clock + 1
                 /\ Logged("mark_failed")
            ELSE UNCHANGED <<trajectory, clock, log>>
       ELSE IF Truthy(trajectory)
            THEN /\ trajectory' = <<MarkCompleted(trajectory[1], clock)>>
                 /\ clock' = clock + 1
                 /\ Logged("mark_completed")
            ELSE UNCHANGED <<trajectory, clock, log>>
    /\ pc' = "cleanup"
    /\ UNCHANGED exc
    /\ FrameLeft
    /\ HandlerFrame

\* lines 138-142: except Exception; the exception stays in flight (raise)
ExceptHandlerNoFinally ==
    /\ pc = "except"
    /\ pc' = "raised"
    /\ Logged("raise")
    /\ UNCHANGED <<trajectory, clock, exc>>
    /\ FrameLeft
    /\ HandlerFrame

ExceptHandler ==
    /\ pc = "except"
    /\ IF Truthy(trajectory)
       THEN /\ trajectory' = <<MarkFailed(trajectory[1], exc, clock)>>
            /\ clock' = clock + 1
            /\ Logged("mark_failed")
       ELSE UNCHANGED <<trajectory, clock, log>>
    /\ pc' = "cleanup"
    /\ UNCHANGED exc
    /\ FrameLeft
    /\ HandlerFrame

\* lines 134-137: except KeyboardInterrupt; the interrupt is swallowed
ExceptInterrupt ==
    /\ pc = "except_kbd"
    /\ IF Truthy(trajectory)
       THEN /\ trajectory' = <<MarkFailed(trajectory[1], ReasonInterrupt,
                                          clock)>>
            /\ clock' = clock + 1
            /\ Logged("mark_failed")
       ELSE UNCHANGED <<trajectory, clock, log>>
    /\ pc' = "cleanup"
    /\ UNCHANGED exc
    /\ FrameLeft
    /\ HandlerFrame

\* lines 143-150 and 234-240: finally: _cleanup(), then run() returns the
\* trajectory or lets the exception in flight go on to the caller.
\* PlaywrightExecutor.close closes the browser and stops playwright, either of
\* which may raise before _started is cleared and before the rest of _cleanup
Cleanup ==
    /\ pc = "cleanup"
    /\ closeCalls' = closeCalls + 1
    /\ \/ /\ executor' = [executor EXCEPT !.started = FALSE]
          /\ history_messages' = Reset(history_messages)
          /\ is_running' = FALSE
          /\ current_task' = None
          /\ pc' = IF exc # None THEN "raised" ELSE "returned"
          /\ log' = log \o <<"close", "reset",
                             IF exc # None THEN "raise" ELSE "return">>
          /\ UNCHANGED exc
       \/ /\ executor.browser
          /\ exc' = "close"
          /\ pc' = "raised"
          /\ log' = log \o <<"close", "raise">>
          /\ UNCHANGED <<executor, history_messages, is_running, current_task>>
    /\ UNCHANGED <<trajectory, save_trajectory, on_step_callback, max_steps_arg,
                   max_steps, use_grounding, step, should_stop,
                   perception_result, action, success, clock, runs, inputs,
                   stopped, stoppedPc, stoppedStep, interrupted, otherVars>>

\* lines 229-232: stop(), called by another thread while a run is active
Stop ==
    /\ pc \notin {"idle"} \cup Terminal
    /\ ~stopped
    /\ is_running' = FALSE
    /\ stopped' = TRUE
    /\ stoppedPc' = StopPoint(pc)
    /\ stoppedStep' = step
    /\ UNCHANGED <<pc, current_task, trajectory, save_trajectory,
                   on_step_callback, max_steps_arg, max_steps, use_grounding,
                   step, should_stop, perception_result, action, success, exc,
                   executor, history_messages, clock, runs, closeCalls, inputs,
                   interrupted, log, otherVars>>

\* a KeyboardInterrupt delivered to the thread of run() inside the try body
Interrupt ==
    /\ pc \in TryBody
    /\ ~interrupted
    /\ interrupted' = TRUE
    /\ pc' = "except_kbd"
    /\ UNCHANGED <<is_running, current_task, trajectory, save_trajectory,
                   on_step_callback, max_steps_arg, max_steps, use_grounding,
                   step, should_stop, perception_result, action, success, exc,
                   executor, history_messages, clock, runs, closeCalls, inputs,
                   stopped, stoppedPc, stoppedStep, log, otherVars>>

Next ==
    \/ \E n \in 0..MaxStepsArg, g \in BOOLEAN : Call(n, g)
    \/ RunEntry
    \/ TrajectoryInit
    \/ Start
    \/ LoopCheck
    \/ Screenshot
    \/ Perceive
    \/ Plan
    \/ Execute
    \/ Record
    \/ Callback
    \/ StepReturn
    \/ Sleep
    \/ AfterLoop
    \/ ExceptHandler
    \/ ExceptInterrupt
    \/ Cleanup
    \/ Stop
    \/ Interrupt

Spec == Init /\ [][Next]_vars

\* ------------------------------------------- a Trajectory driven directly
FirstTerminal(t) ==
    IF firstTerminal = << >> THEN <<t.status, t.end_time>> ELSE firstTerminal

TrajAddStep(a, succ, hasShot) ==
    /\ trajOps < MaxTrajOps
    /\ traj' = AddStep(traj, a, "t", NoPerception, succ, hasShot, clock)
    /\ clock' = clock + 1
    /\ trajOps' = trajOps + 1
    /\ trajCall' = <<"add_step", None>>
    /\ UNCHANGED <<firstTerminal, agentVars, clientVars, visionVars, pureVars>>

TrajMarkCompleted ==
    /\ trajOps < MaxTrajOps
    /\ traj' = MarkCompleted(traj, clock)
    /\ firstTerminal' = FirstTerminal(traj')
    /\ trajCall' = <<"mark_completed", None>>
    /\ clock' = clock + 1
    /\ trajOps' = trajOps + 1
    /\ UNCHANGED <<agentVars, clientVars, visionVars, pureVars>>

TrajMarkFailed(reason) ==
    /\ trajOps < MaxTrajOps
    /\ traj' = MarkFailed(traj, reason, clock)
    /\ firstTerminal' = FirstTerminal(traj')
    /\ trajCall' = <<"mark_failed", reason>>
    /\ clock' = clock + 1
    /\ trajOps' = trajOps + 1
    /\ UNCHANGED <<agentVars, clientVars, visionVars, pureVars>>

TrajInit ==
    /\ AgentInit
    /\ save_trajectory = TRUE
    /\ on_step_callback = FALSE
    /\ clock = 1
    /\ TrajIdle
    /\ ClientIdle
    /\ VisionIdle
    /\ PureIdle

TrajNext ==
    \/ \E a \in {"click_left", "stop"}, succ \in BOOLEAN, hasShot \in BOOLEAN :
         TrajAddStep(a, succ, hasShot)
    \/ TrajMarkCompleted
    \/ \E reason \in {ReasonMaxSteps, ReasonInterrupt} : TrajMarkFailed(reason)

TrajSpec == TrajInit /\ [][TrajNext]_vars

\* ------------------------------------ a ChatClient driven directly
\* no call in flight: the wrapper's locals do not exist
NoCallLocals ==
    /\ wrapper' = "idle"
    /\ call' = NoCall
    /\ retry_count' = 0
    /\ attempts' = 0
    /\ errors' = << >>
    /\ sleeps' = << >>
    /\ ended' = << >>
    /\ request' = << >>

\* an operation begins on the client
ClientOp(name) ==
    /\ wrapper = "idle"
    /\ clientOps < MaxClientOps
    /\ clientOps' = clientOps + 1
    /\ op' = name
    /\ before' = history_messages
    /\ UNCHANGED <<agentRest, clock, trajVars, visionVars, pureVars>>

\* add_user_message, add_assistant_message, add_system_message
AddMessageOp(role) ==
    /\ ClientOp("add_message")
    /\ history_messages' = AddMessage(history_messages, role)
    /\ NoCallLocals

\* clear_history(keep_system)
ClearOp(keep_system) ==
    /\ ClientOp(IF keep_system THEN "clear_history(True)"
                ELSE "clear_history(False)")
    /\ history_messages' = ClearHistory(history_messages, keep_system)
    /\ NoCallLocals

\* a decorated method is called: wrapper() sets retry_count = 0
BeginCall(kind, mr, bd) ==
    /\ ClientOp(kind)
    /\ history_messages' = IF kind = "send"
                           THEN AddMessage(history_messages, "user")
                           ELSE history_messages
    /\ wrapper' = "loop"
    /\ call' = [kind |-> kind, max_retries |-> mr, base_delay |-> bd]
    /\ retry_count' = 0
    /\ attempts' = 0
    /\ errors' = << >>
    /\ sleeps' = << >>
    /\ ended' = << >>
    /\ request' = << >>

\* while retry_count < max_retries: ... ; return None
WhileTest ==
    /\ wrapper = "loop"
    /\ IF retry_count < call.max_retries
       THEN wrapper' = "attempt" /\ ended' = ended
       ELSE wrapper' = "idle" /\ ended' = <<"returned", NoReply>>
    /\ UNCHANGED <<agentVars, clock, trajVars, visionVars, pureVars, call, retry_count,
                   attempts, errors, sleeps, request, before, op, clientOps>>

\* return func(*args, **kwargs): the attempt gets a reply; the reply of the
\* k-th attempt is named k
AttemptReturns ==
    /\ wrapper = "attempt"
    /\ attempts' = attempts + 1
    /\ request' = RequestOf(call.kind, history_messages)
    /\ history_messages' = AfterAttempt(call.kind, history_messages, TRUE)
    /\ ended' = <<"returned", attempts'>>
    /\ wrapper' = "idle"
    /\ UNCHANGED <<agentRest, clock, trajVars, visionVars, pureVars, call, retry_count,
                   errors, sleeps, before, op, clientOps>>

\* except Exception as e: the k-th attempt raises the exception named k,
\* after sending its request or (image encoding) before
AttemptRaises(sent) ==
    /\ wrapper = "attempt"
    /\ sent \/ call.kind = "stateless"
    /\ attempts' = attempts + 1
    /\ request' = IF sent THEN RequestOf(call.kind, history_messages)
                  ELSE request
    /\ history_messages' = AfterAttempt(call.kind, history_messages, FALSE)
    /\ errors' = Append(errors, attempts')
    /\ retry_count' = retry_count + 1
    /\ IF Exhausted(retry_count', call.max_retries)
       THEN /\ ended' = <<"raised", attempts'>>
            /\ wrapper' = "idle"
            /\ sleeps' = sleeps
       ELSE /\ sleeps' = Append(sleeps, Delay(call.base_delay, retry_count'))
            /\ wrapper' = "loop"
            /\ ended' = ended
    /\ UNCHANGED <<agentRest, clock, trajVars, visionVars, pureVars, call, before, op,
                   clientOps>>

ClientInit ==
    /\ AgentInit
    /\ save_trajectory = TRUE
    /\ on_step_callback = FALSE
    /\ clock = 1
    /\ TrajIdle
    /\ ClientIdle
    /\ VisionIdle
    /\ PureIdle

ClientNext ==
    \/ \E role \in {"user", "assistant", "system"} : AddMessageOp(role)
    \/ \E keep_system \in BOOLEAN : ClearOp(keep_system)
    \/ \E kind \in {"send", "chat", "stateless"}, mr \in 0..MaxRetries,
          bd \in {1, 2} :
         BeginCall(kind, mr, bd)
    \/ WhileTest
    \/ AttemptReturns
    \/ \E sent \in BOOLEAN : AttemptRaises(sent)

ClientSpec == ClientInit /\ [][ClientNext]_vars

\* ------------------------------- a VisionPerception driven directly

\* perceive(): the stateless call raised after its retries
PerceiveCallFails(error) ==
    /\ perceiveCalls < MaxPerceives
    /\ perceiveCalls' = perceiveCalls + 1
    /\ vision_reply' = <<"raised", error>>
    /\ perceived' = <<"returned", Degraded(error)>>
    /\ UNCHANGED <<agentVars, clock, trajVars, clientVars, pureVars>>

\* perceive(): the stateless call returned r
PerceiveCallReturns(r) ==
    /\ perceiveCalls < MaxPerceives
    /\ perceiveCalls' = perceiveCalls + 1
    /\ vision_reply' = <<"returned", r>>
    /\ perceived' = <<"returned", PerceiveReply(r)>>
    /\ UNCHANGED <<agentVars, clock, trajVars, clientVars, pureVars>>

\* perceive(): the stateless call returned None (a message without
\* content); json.loads(None) raises TypeError, caught by `except Exception`
PerceiveCallReturnsNone ==
    /\ perceiveCalls < MaxPerceives
    /\ perceiveCalls' = perceiveCalls + 1
    /\ vision_reply' = <<"no_content", None>>
    /\ perceived' = <<"returned", Degraded("TypeError")>>
    /\ UNCHANGED <<agentVars, clock, trajVars, clientVars, pureVars>>

PerceiveNext ==
    \/ \E error \in {"timeout", "rate limit"} : PerceiveCallFails(error)
    \/ \E r \in Replies : PerceiveCallReturns(r)
    \/ PerceiveCallReturnsNone

PerceiveSpec == PureInit /\ [][PerceiveNext]_vars

\* ------------------------------------------- Actions made and serialized
\* the replies of the model: the name is one of the seven in any case,
\* another one or absent; each key of "parameters" is absent or holds a
\* JSON value
Responses ==
    LET Names ==
            {Name("", {})} \cup
            {Name(l, c) : l \in ActionTypes \cup {"click", "press"},
                          c \in {{}, {1}, {1, 2}}}
    IN  [action : {Nothing} \cup {Some(n) : n \in Names},
         parameters :
            [x : {Nothing, Some(Val("int", 5)), Some(Val("float", 27)),
                  Some(Val("str", "abc"))},
             y : {Nothing, Some(Val("int", 7))},
             amount : {Nothing, Some(Val("int", 100))},
             text : {Nothing, Some(Val("str", "hi")), Some(Val("int", 5))},
             seconds : {Nothing, Some(Val("int", 3)), Some(Val("float", 0)),
                        Some(Val("null", None))}],
         thought : {Nothing, Some("t")}]

\* ActionSpace.from_llm_response(response)
FromLLMResponseCall(response) ==
    /\ made = Nothing
    /\ made' = from_llm_response(response)
    /\ made_by' = "from_llm_response"
    /\ made_from' = Some(response)
    /\ UNCHANGED <<baseVars, serialized, restored, ground_in, ground_out,
                   driver, driverState, d_last, driverOps, locate_in,
                   located>>

\* Action(action_type, coordinates=..., text=..., wait_time=...)
Construct(action_type, coordinates, text, wait_time) ==
    /\ made = Nothing
    /\ made' = Returned(Action(action_type, coordinates, text, Nothing,
                               wait_time, Nothing, << >>))
    /\ made_by' = "Action"
    /\ made_from' = Some(<<action_type, coordinates, text, wait_time>>)
    /\ UNCHANGED <<baseVars, serialized, restored, ground_in, ground_out,
                   driver, driverState, d_last, driverOps, locate_in,
                   located>>

\* ActionSpace.create_type(text, coordinates)
CreateType(text, coordinates) ==
    /\ made = Nothing
    /\ made' = Returned(create_type(text, coordinates, Nothing))
    /\ made_by' = "create_type"
    /\ made_from' = Some(<<text, coordinates>>)
    /\ UNCHANGED <<baseVars, serialized, restored, ground_in, ground_out,
                   driver, driverState, d_last, driverOps, locate_in,
                   located>>

\* d = a.to_dict()
Serialize ==
    /\ made # Nothing
    /\ made[1] = "returned"
    /\ serialized = Nothing
    /\ serialized' = Some(to_dict(made[2]))
    /\ UNCHANGED <<baseVars, made, made_by, made_from, restored, ground_in,
                   ground_out, driver, driverState, d_last, driverOps,
                   locate_in, located>>

\* Action.from_dict(d)
Deserialize ==
    /\ serialized # Nothing
    /\ restored = Nothing
    /\ restored' = Some(from_dict(serialized[1]))
    /\ UNCHANGED <<baseVars, made, made_by, made_from, serialized, ground_in,
                   ground_out, driver, driverState, d_last, driverOps,
                   locate_in, located>>

ActionNext ==
    \/ \E response \in Responses : FromLLMResponseCall(response)
    \/ \E m \in DOMAIN ActionTypeMembers,
          c \in {Nothing, Some(<<1, 2>>), Some(<<1, 2, 3>>), Some(<< >>)},
          t \in {Nothing, Some("hi")}, w \in {Nothing, Some(0), Some(15)} :
          Construct(m, c, t, w)
    \/ \E t \in {Nothing, Some("hi")},
          c \in {Nothing, Some(<<1, 2>>), Some(<<1, 2, 3>>)} :
          CreateType(t, c)
    \/ Serialize
    \/ Deserialize

ActionSpec == PureInit /\ [][ActionNext]_vars

\* --------------------------------- plan_with_grounding called directly
GroundCall(msgs, intent_reply, element_locator, plan_outcome, a) ==
    /\ ground_in = Nothing
    /\ ground_in' = Some([msgs |-> msgs, intent_reply |-> intent_reply,
                          element_locator |-> element_locator,
                          plan_outcome |-> plan_outcome, a |-> a])
    /\ ground_out' = Some(plan_with_grounding(msgs, intent_reply,
                                              element_locator, plan_outcome, a))
    /\ UNCHANGED <<baseVars, made, made_by, made_from, serialized, restored,
                   driver, driverState, d_last, driverOps, locate_in,
                   located>>

\* the call on every context of the planner, on a raising intent call and
\* every intent, without a locator and with one that finds the element,
\* finds none or raises
GroundNext ==
    \E msgs \in {SystemOnly,
                  AddMessage(AddMessage(SystemOnly, "user"), "assistant")},
       intent_reply \in
           {Raised("call")} \cup
           {Returned(i) :
               i \in [action_type : {Nothing} \cup {Some(t) : t \in ActionTypes},
                      target_element : {Nothing, Some(""), Some("button")},
                      thought : {Nothing, Some("t")},
                      text_to_type : {Nothing, Some("hi")}]},
       element_locator \in
           {Nothing, Some(Returned(Some(<<3, 4>>))), Some(Returned(Nothing)),
            Some(Raised("locator"))},
       plan_outcome \in PlanOutcomes, a \in PlannedTypes :
        GroundCall(msgs, intent_reply, element_locator, plan_outcome, a)

GroundSpec == PureInit /\ [][GroundNext]_vars

\* ------------------------------- a PlaywrightExecutor driven directly
\* one call on the executor: arg is its argument, r what the method leaves,
\* state the state of the driver after it
DriverOp(name, arg, r, state) ==
    /\ driverOps < MaxDriverOps
    /\ driverOps' = driverOps + 1
    /\ driver' = r.driver
    /\ driverState' = state
    /\ d_last' = Some([op |-> name, arg |-> arg, before |-> driverState,
                       result |-> r.result, input |-> r.input])
    /\ UNCHANGED <<baseVars, made, made_by, made_from, serialized, restored,
                   ground_in, ground_out, locate_in, located>>

\* executor.start(url)
DriverStart(fails_at) ==
    LET r == start(driver, fails_at)
    IN  DriverOp("start", None, r,
                 IF r.result[1] = "returned" THEN "started" ELSE driverState)

\* ActionExecutor(mode="browser").start(url)
DispatcherStart(url, fails_at) ==
    LET r == ActionExecutor_start(driver, url, fails_at)
    IN  DriverOp("ActionExecutor.start", url, r,
                 IF r.driver.started THEN "started" ELSE driverState)

\* executor.execute(action)
DriverExecute(action_type, raises) ==
    DriverOp("execute", action_type, execute(driver, action_type, raises),
             driverState)

\* executor.take_screenshot()
DriverScreenshot(raises) ==
    DriverOp("take_screenshot", None, take_screenshot(driver, raises),
             driverState)

\* executor.close()
DriverClose(raises) ==
    LET r == close(driver, raises)
    IN  DriverOp("close", None, r,
                 IF r.result[1] = "returned" /\ driverState = "started"
                 THEN "closed" ELSE driverState)

DriverNext ==
    \/ \E fails_at \in {"none", "launch", "goto"} : DriverStart(fails_at)
    \/ \E url \in {None, "", "https://example.com"},
          fails_at \in {"none", "launch", "goto"} : DispatcherStart(url, fails_at)
    \/ \E t \in {"CLICK_LEFT", "TYPE", "WAIT", "STOP"}, raises \in BOOLEAN :
          DriverExecute(t, raises)
    \/ \E raises \in BOOLEAN : DriverScreenshot(raises)
    \/ \E raises \in BOOLEAN : DriverClose(raises)

DriverSpec == PureInit /\ [][DriverNext]_vars

\* ------------------------------------- locate_element called directly
LocateElement(width, height, reply) ==
    /\ locate_in = Nothing
    /\ locate_in' = Some([width |-> width, height |-> height, reply |-> reply])
    /\ located' = Some(locate_element(width, height, reply))
    /\ UNCHANGED <<baseVars, made, made_by, made_from, serialized, restored,
                   ground_in, ground_out, driver, driverState, d_last,
                   driverOps>>

\* the call on small images and on one of 800x600, for every outcome of the
\* grounding call: raised after its retries, returned a message without
\* content, or returned a text, given by what each parse stage finds in it
\* and the object it encodes (coordinates outside and inside the image,
\* one that is no number, or none)
LocateNext ==
    \E width \in (1..MaxDim) \cup {800}, height \in (1..MaxDim) \cup {600},
       reply \in
           {Raised(e) : e \in {"timeout", "rate limit"}} \cup {<<"no_content", None>>} \cup
           {Returned(r) :
               r \in {t \in [whole : Parsed, fenced : {"absent", "invalid"},
                             braces : {"object", "invalid", "absent"},
                             obj : [found : {Nothing, Some(TRUE), Some(FALSE)},
                                    x : {Nothing, Some(Val("str", "abc"))} \cup
                                        {Some(Val("int", v)) :
                                            v \in {-5, 0, 1, MaxDim - 1,
                                                   MaxDim, 799, 800}},
                                    y : {Nothing} \cup
                                        {Some(Val("int", v)) :
                                            v \in {-5, MaxDim, 99999}}]] :
                         t.whole = "object" => t.braces = "object"}} :
        LocateElement(width, height, reply)

LocateSpec == PureInit /\ [][LocateNext]_vars

\* ------------------------------------ _parse_json_response called directly
\* the planner's or the perception's _parse_json_response(response)
ParseCall(caller, response) ==
    /\ recovered' = Some([caller |-> caller, response |-> response,
                          result |-> parse_json_response(caller, response)])
    /\ UNCHANGED <<coreVars, twin, agent_shared>>

ParseNext ==
    \E caller \in {"planner", "perception"}, response \in ReplyTexts :
        ParseCall(caller, response)

ParseSpec == PureInit /\ [][ParseNext]_vars

\* ------------------------- two runs that differ in the thought texts only
\* one iteration of both runs: the same perception result, the same action
\* name and parameters in the planner's reply, the same outcome of
\* executor.execute, and a thought of its own for each run
TwinStep(complete, response, thought_a, thought_b, ok) ==
    /\ twin.a.ended = None \/ twin.b.ended = None
    /\ twin' = [a |-> execute_step(twin.a, complete,
                                   [response EXCEPT !.thought = thought_a], ok),
                b |-> execute_step(twin.b, complete,
                                   [response EXCEPT !.thought = thought_b], ok)]
    /\ UNCHANGED <<coreVars, recovered, agent_shared>>

TwinNext ==
    \E complete \in BOOLEAN, ok \in BOOLEAN,
       thought_a \in {Nothing, Some("t"), Some("stop")},
       thought_b \in {Nothing, Some("t"), Some("stop")},
       response \in
          [action : {Some(Name(l, {})) :
                        l \in {"stop", "click_left", "wait", "press"}},
           parameters :
              [x : {Some(Val("int", 5))},
               y : {Some(Val("int", 7))}, amount : {Nothing}, text : {Nothing},
               seconds : {Nothing}],
           thought : {Nothing}] :
        TwinStep(complete, response, thought_a, thought_b, ok)

TwinSpec == PureInit /\ [][TwinNext]_vars

\* ------------------------------ run() called by two threads on one agent
\* run() up to the loop (lines 89-105): no test of is_running, the flags and
\* the task are assigned, the driver is started
ConcurrentCall(t) ==
    /\ agent_shared.pc[t] = "idle"
    /\ agent_shared' =
          [agent_shared EXCEPT !.pc[t] = "loop", !.is_running = TRUE,
                               !.current_task = t, !.started = TRUE,
                               !.calls = Append(@, <<t, "start">>)]
    /\ UNCHANGED <<coreVars, recovered, twin>>

\* `while step < max_steps and self.is_running`, step += 1 and the step's
\* first driver call, take_screenshot, which raises on a closed driver
ConcurrentLoop(t) ==
    /\ agent_shared.pc[t] = "loop"
    /\ agent_shared' =
          IF agent_shared.step[t] < ConcurrentMaxSteps /\ agent_shared.is_running
          THEN [agent_shared EXCEPT
                   !.step[t] = @ + 1,
                   !.pc[t] = IF agent_shared.started THEN "step" ELSE "cleanup",
                   !.calls = Append(@, <<t, "take_screenshot">>)]
          ELSE [agent_shared EXCEPT !.pc[t] = "cleanup"]
    /\ UNCHANGED <<coreVars, recovered, twin>>

\* the rest of _execute_step: executor.execute, which raises on a closed
\* driver, then back to the loop
ConcurrentExecute(t) ==
    /\ agent_shared.pc[t] = "step"
    /\ agent_shared' =
          [agent_shared EXCEPT
              !.pc[t] = IF agent_shared.started THEN "loop" ELSE "cleanup",
              !.calls = Append(@, <<t, "execute">>)]
    /\ UNCHANGED <<coreVars, recovered, twin>>

\* _cleanup: executor.close(), is_running = False, current_task = None
ConcurrentCleanup(t) ==
    /\ agent_shared.pc[t] = "cleanup"
    /\ agent_shared' =
          [agent_shared EXCEPT !.pc[t] = "done", !.is_running = FALSE,
                               !.current_task = None, !.started = FALSE,
                               !.calls = Append(@, <<t, "close">>)]
    /\ UNCHANGED <<coreVars, recovered, twin>>

ConcurrentNext ==
    \E t \in {1, 2} :
        \/ ConcurrentCall(t)
        \/ ConcurrentLoop(t)
        \/ ConcurrentExecute(t)
        \/ ConcurrentCleanup(t)

ConcurrentSpec == PureInit /\ [][ConcurrentNext]_vars

\* ------------------------------------------------------------- properties
\* the trajectory of the current run, when recording created one
T == trajectory[1]
TerminalStatus == {"completed", "failed"}

\* C1: a run with max_steps = N >= 1 and recording enabled, in which
\* perception never reports completion, the planner never chooses Stop,
\* nothing raises and nobody stops or interrupts it, returns with exactly N
\* recorded steps, status failed and the step-limit reason on the last step.
C1_StepLimitRecorded ==
    (/\ pc = "returned"
     /\ save_trajectory
     /\ max_steps_arg >= 1
     /\ ~should_stop
     /\ ~stopped
     /\ ~interrupted)
    => /\ Len(T.steps) = max_steps_arg
       /\ T.status = "failed"
       /\ T.steps[max_steps_arg].metadata = <<ReasonMaxSteps>>

\* C2: a run whose loop was left by the break (perception reported completion
\* or the action was Stop), at whatever step, returns with the trajectory
\* marked completed.
C2_BreakMarksCompleted ==
    (/\ pc = "returned"
     /\ save_trajectory
     /\ should_stop
     /\ ~interrupted)
    => T.status = "completed"

\* C3: on every exit of run() that entered the try statement (normal end,
\* stop(), step limit, interrupt, exception of start, of a step, of the
\* callback) the driver's close() has been called exactly once when run()
\* returns or raises, it is called before that, and never earlier than the
\* cleanup.
C3_CloseExactlyOnce ==
    /\ closeCalls <= 1
    /\ pc \in TryBody \cup {"except", "except_kbd", "cleanup"} => closeCalls = 0
    /\ (pc \in Terminal /\ exc # "traj_init")
       => /\ closeCalls = 1
          /\ \E i \in 1..(Len(log) - 1) : log[i] = "close"
          /\ log[Len(log)] \in {"return", "raise"}

\* a run that raised the callback's exception in its second step, closed
C3_Witness ==
    /\ pc = "raised"
    /\ exc = "callback"
    /\ step = 2
    /\ closeCalls = 1

\* C4: when run() has returned or raised, by any exit path, is_running is
\* false, current_task is empty and the planner's context holds only its
\* system message.
C4_CleanAfterRun ==
    pc \in Terminal
    => /\ ~is_running
       /\ current_task = None
       /\ history_messages = SystemOnly

\* C5: when the exception of start, of the screenshot or of the callback
\* leaves run(), the trajectory has been marked failed, then cleanup has run,
\* then the exception is raised to the caller.
C5_FatalOrder ==
    (/\ pc = "raised"
     /\ save_trajectory
     /\ exc \in {"start", "screenshot", "callback"})
    => /\ T.status = "failed"
       /\ Len(log) >= 4
       /\ SubSeq(log, Len(log) - 3, Len(log))
            = <<"mark_failed", "close", "reset", "raise">>

\* C6: with recording enabled, when run() has returned or raised after
\* creating its trajectory, the status of the trajectory is completed or
\* failed, never running.
C6_TerminalStatus ==
    (/\ pc \in Terminal
     /\ save_trajectory
     /\ exc # "traj_init")
    => T.status \in TerminalStatus

\* C7: when stop() was called while step k was in flight or in the sleep
\* after it, the run returns with no later step started, step k recorded and
\* a terminal status.
C7_StopTakesEffect ==
    (/\ pc = "returned"
     /\ save_trajectory
     /\ stopped
     /\ stoppedPc \in {"step", "sleep"}
     /\ ~interrupted)
    => /\ step = stoppedStep
       /\ \E i \in 1..Len(T.steps) : T.steps[i].step = stoppedStep
       /\ T.status \in TerminalStatus

\* C8: after any sequence of add_step calls (and marks) on a Trajectory its
\* steps are numbered 1..N in append order, with no gap and no duplicate.
C8_StepsNumbered ==
    \A i \in 1..Len(traj.steps) : traj.steps[i].step = i

\* three steps appended, a mark among the calls
C8_Witness ==
    /\ Len(traj.steps) = 3
    /\ traj.status = "failed"

\* C9: once the status of a Trajectory is terminal no call makes its step
\* sequence grow.
C9_TerminalFrozen ==
    [][traj.status \in TerminalStatus => Len(traj'.steps) = Len(traj.steps)]_vars

\* C10: after a second mark call the status is still the one the first
\* terminal transition set.
C10_FirstTerminalWins ==
    firstTerminal # << >> => traj.status = firstTerminal[1]

\* the calls of mark_completed and mark_failed among the events of a run
RECURSIVE CountMarks(_)
CountMarks(events) ==
    IF events = << >> THEN 0
    ELSE (IF Head(events) \in {"mark_completed", "mark_failed"} THEN 1 ELSE 0)
         + CountMarks(Tail(events))

\* C11: in a run with recording enabled the trajectory starts running with no
\* step, and when the run has returned or raised exactly one call of
\* mark_completed or mark_failed was made, end_time is set, and no step was
\* recorded after that call.
C11_MarkedOnce ==
    /\ (pc = "start" /\ save_trajectory)
       => (T.status = "running" /\ T.steps = << >> /\ T.end_time = NoTime)
    /\ (pc \in Terminal /\ save_trajectory /\ exc # "traj_init")
       => /\ CountMarks(log) = 1
          /\ T.end_time # NoTime
          /\ \A i \in 1..Len(log), j \in 1..Len(log) :
               (log[i] \in {"mark_completed", "mark_failed"} /\ log[j] = "record")
               => j < i

\* C12: the document is written exactly by the mark calls: a mark_completed
\* or mark_failed call leaves in the file the task, the status and the times
\* the object has after the call, every step appended so far and their count;
\* an add_step call leaves the file as it was; before the first mark call
\* there is no file.
C12_PersistedAtMarks ==
    /\ [](firstTerminal = << >> => traj.file = << >>)
    /\ [][/\ (trajOps' # trajOps /\ trajCall'[1] \in {"mark_completed", "mark_failed"})
             => /\ Len(traj'.file) = 1
                /\ traj'.file[1].task = traj'.task
                /\ traj'.file[1].status = traj'.status
                /\ traj'.file[1].status \in TerminalStatus
                /\ traj'.file[1].start_time = traj'.start_time
                /\ traj'.file[1].end_time = traj'.end_time
                /\ traj'.file[1].end_time = clock
                /\ traj'.file[1].steps = traj'.steps
                /\ Len(traj'.file[1].steps) = Len(traj.steps)
                /\ traj'.file[1].total_steps = Len(traj.steps)
          /\ (trajOps' # trajOps /\ trajCall'[1] = "add_step")
             => traj'.file = traj.file]_vars

\* a document written after two steps, and a third step appended since
C12_Witness ==
    /\ Len(traj.steps) = 3
    /\ traj.file # << >>
    /\ traj.file[1].total_steps = 2
    /\ traj.file[1].status = "completed"

\* C13: a mark_failed(reason) call leaves the reason in the metadata of the
\* last step, in the object and in the document it writes; a mark_completed
\* call changes no step, and a mark_failed call changes none but the last.
C13_ReasonAttached ==
    [][/\ (trajOps' # trajOps /\ trajCall'[1] = "mark_failed")
          => /\ Len(traj'.steps) = Len(traj.steps)
             /\ Len(traj'.steps) >= 1
             /\ traj'.steps[Len(traj'.steps)].metadata = <<trajCall'[2]>>
             /\ traj'.file[1].steps[Len(traj'.steps)].metadata = <<trajCall'[2]>>
             /\ \A i \in 1..(Len(traj.steps) - 1) : traj'.steps[i] = traj.steps[i]
       /\ (trajOps' # trajOps /\ trajCall'[1] = "mark_completed")
          => traj'.steps = traj.steps]_vars

RECURSIVE SumSeq(_)
SumSeq(q) == IF q = << >> THEN 0 ELSE Head(q) + SumSeq(Tail(q))

\* 1 + 2 + ... + 2^(n-1)
RECURSIVE GeoSum(_)
GeoSum(n) == IF n <= 0 THEN 0 ELSE 2^(n - 1) + GeoSum(n - 1)

\* a retried call has ended
CallEnded == wrapper = "idle" /\ call # NoCall /\ ended # << >>

\* C14: a retried call whose every attempt raised was attempted exactly
\* max_retries times, raised to its caller the exception of its last attempt,
\* and slept base_delay*(1+2+...+2^(max_retries-2)) in total.
C14_AlwaysFailing ==
    (CallEnded /\ Len(errors) = attempts)
    => /\ attempts = call.max_retries
       /\ call.max_retries >= 1
          => /\ ended = <<"raised", errors[Len(errors)]>>
             /\ ended[2] = call.max_retries
       /\ SumSeq(sleeps) = call.base_delay * GeoSum(call.max_retries - 1)

\* three attempts, all raising, with base delay 2: slept 2 then 4
C14_Witness ==
    /\ CallEnded
    /\ call.max_retries = 3
    /\ call.base_delay = 2
    /\ ended = <<"raised", 3>>
    /\ sleeps = <<2, 4>>

\* C15: a retried call that returned the reply of its k-th attempt was
\* attempted exactly k times, k <= max_retries, after k-1 failures; the i-th
\* failure was followed by a sleep of base_delay*2^(i-1); nothing was slept
\* after the successful attempt, nor after the final attempt of a call that
\* raised.
C15_FirstSuccess ==
    /\ (CallEnded /\ ended[1] = "returned" /\ ended[2] # NoReply)
       => /\ ended[2] = attempts
          /\ attempts \in 1..call.max_retries
          /\ errors = [i \in 1..(attempts - 1) |-> i]
          /\ sleeps = [i \in 1..(attempts - 1) |-> call.base_delay * 2^(i - 1)]
    /\ (CallEnded /\ ended[1] = "raised")
       => sleeps = [i \in 1..(attempts - 1) |-> call.base_delay * 2^(i - 1)]
    /\ wrapper \in {"loop", "attempt"}
       => sleeps = [i \in 1..Len(errors) |-> call.base_delay * 2^(i - 1)]

\* the third attempt succeeded, after sleeps of 1 and 2
C15_Witness ==
    /\ CallEnded
    /\ ended = <<"returned", 3>>
    /\ call.base_delay = 1
    /\ sleeps = <<1, 2>>

IsPrefix(a, b) == Len(a) <= Len(b) /\ SubSeq(b, 1, Len(a)) = a

\* the step is a clear_history call
ClearStep ==
    /\ clientOps' # clientOps
    /\ op' \in {"clear_history(True)", "clear_history(False)"}

\* C16: no step other than a clear_history call removes or reorders a message
\* of the context; a send_message that returned left exactly the user message
\* and then the assistant message after what the context held, however many
\* attempts it took; while it is retried, and when it raised, the context
\* holds the user message only; chat_completion alone adds the assistant
\* message only.
C16_ContextGrows ==
    /\ [][~ClearStep => IsPrefix(history_messages, history_messages')]_vars
    /\ []((call.kind = "send" /\ ended # << >> /\ ended[1] = "returned"
            /\ ended[2] # NoReply)
          => history_messages
               = before \o <<Msg("user", Len(before) + 1),
                              Msg("assistant", Len(before) + 2)>>)
    /\ []((call.kind = "send" /\ (ended = << >> \/ ended[1] = "raised"))
          => history_messages = before \o <<Msg("user", Len(before) + 1)>>)
    /\ []((call.kind = "chat" /\ ended # << >> /\ ended[1] = "returned"
            /\ ended[2] # NoReply)
          => history_messages = before \o <<Msg("assistant", Len(before) + 1)>>)

\* a send_message that returned on its third attempt
C16_Witness ==
    /\ CallEnded
    /\ call.kind = "send"
    /\ ended = <<"returned", 3>>
    /\ Len(history_messages) = Len(before) + 2

\* C17: clear_history(keep_system=True) leaves no user and no assistant
\* message and keeps the leading system message when there was one;
\* clear_history(keep_system=False) leaves the context empty; a second
\* identical clear right after the first changes nothing.
C17_Clear ==
    [][ClearStep
       => /\ op' = "clear_history(True)"
             => /\ \A i \in 1..Len(history_messages') :
                      history_messages'[i].role = "system"
                /\ (history_messages # << >>
                    /\ history_messages[1].role = "system")
                   => /\ history_messages' # << >>
                      /\ history_messages'[1] = history_messages[1]
          /\ op' = "clear_history(False)" => history_messages' = << >>
          /\ op = op' => history_messages' = history_messages]_vars

\* clear_history(True) on a system, a user and an assistant message
C17_Witness ==
    /\ op = "clear_history(True)"
    /\ Len(before) = 3
    /\ before[1].role = "system"
    /\ before[3].role = "assistant"
    /\ history_messages = <<before[1]>>

\* C18: a stateless call sends the one-shot user message alone, and the
\* context of the client is, during the call and after it, returned or
\* raised, what it was before.
C18_Stateless ==
    call.kind = "stateless"
    => /\ history_messages = before
       /\ request # << >> => request = OneShot

\* a stateless call that raised after three attempts, on a context of two
C18_Witness ==
    /\ CallEnded
    /\ call.kind = "stateless"
    /\ ended = <<"raised", 3>>
    /\ request = OneShot
    /\ Len(before) >= 2

\* C19: a step whose perception is the degraded result of a failed model
\* call goes on like any other: when it reaches its callback it has planned,
\* executed and, with recording enabled, recorded the step with that
\* perception.
C19_DegradedStepRecorded ==
    (/\ pc = "callback"
     /\ save_trajectory
     /\ perception_result.error_detected)
    => /\ Len(log) >= 4
       /\ SubSeq(log, Len(log) - 3, Len(log))
            = <<"perceive", "plan", "execute", "record">>
       /\ T.steps # << >>
       /\ T.steps[Len(T.steps)].perception = perception_result

\* no stage of _parse_json_response parses the reply
AllStagesFail(r) ==
    /\ r.whole = "invalid"
    /\ r.fenced \in {"absent", "invalid"}
    /\ r.braces \in {"absent", "invalid"}

\* C20: when no stage parses the reply of the vision model, perceive returns
\* a result whose is_task_complete is false and whose error_detected is set.
C20_ParseFailureDegraded ==
    (/\ vision_reply # << >>
     /\ vision_reply[1] = "returned"
     /\ AllStagesFail(vision_reply[2]))
    => /\ perceived[1] = "returned"
       /\ Get(perceived[2], "is_task_complete", FALSE) = FALSE
       /\ "error_detected" \in DOMAIN perceived[2]
       /\ perceived[2].error_detected # None

\* the last n events of the run
LastEvents(n) ==
    IF Len(log) >= n THEN SubSeq(log, Len(log) - n + 1, Len(log)) ELSE << >>

\* C21: a step whose planning failed carries the Wait of 2.0 seconds, and
\* when it reaches its callback that Wait has been executed and, with
\* recording enabled, recorded.
C21_PlanFailureWaits ==
    /\ action.thought = "failed"
       => (action.action_type = "wait" /\ action.wait_time = 20)
    /\ (pc = "callback" /\ save_trajectory /\ action = WaitFallback)
       => /\ success
          /\ LastEvents(3) = <<"plan", "execute", "record">>
          /\ T.steps # << >>
          /\ T.steps[Len(T.steps)].action = "wait"

\* C27: a step whose action raised in the started driver reaches its callback
\* with the action performed once, execute having returned false, and, with
\* recording enabled, the step recorded with success = false.
C27_FailedActionRecorded ==
    (pc = "callback" /\ save_trajectory /\ ~success)
    => /\ inputs = 1
       /\ LastEvents(2) = <<"execute", "record">>
       /\ T.steps # << >>
       /\ ~T.steps[Len(T.steps)].success

\* C28: with recording enabled the callback is invoked right after the step
\* was appended, with the number of that step; when its exception has left
\* run() the trajectory is failed.
C28_CallbackAfterRecord ==
    /\ (save_trajectory /\ LastEvents(1) = <<"callback">>)
       => /\ LastEvents(2) = <<"record", "callback">>
          /\ T.steps # << >>
          /\ T.steps[Len(T.steps)].step = step
    /\ (save_trajectory /\ pc = "raised" /\ exc = "callback")
       => T.status = "failed"

\* C30: with recording enabled, whenever an iteration of the loop has ended
\* (the loop sleeps, or was left) the trajectory holds as many steps as
\* iterations were started.
C30_FullCycle ==
    (save_trajectory /\ pc \in {"sleep", "after_loop"})
    => Len(T.steps) = step

\* the letters of the name in the reply from_llm_response was called with
MadeLetters ==
    IF made_from[1].action = Nothing THEN ""
    ELSE made_from[1].action[1].letters
\* the parameters the variant of that name reads are absent or convertible
ParamsUsable ==
    LET p == made_from[1].parameters
        ok(key, default) == IntOf(OptGet(p, key, default))[1] = "returned"
    IN  CASE MadeLetters \in {"click_left", "click_right"} ->
                ok("x", Val("int", 0)) /\ ok("y", Val("int", 0))
          [] MadeLetters \in {"scroll_up", "scroll_down"} ->
                ok("amount", Val("int", 300))
          [] MadeLetters = "type" ->
                (p.x # Nothing /\ p.y # Nothing)
                => (ok("x", Val("int", 0)) /\ ok("y", Val("int", 0)))
          [] MadeLetters = "wait" ->
                FloatOf(OptGet(p, "seconds", Val("float", 10)))[1] = "returned"
          [] OTHER -> TRUE
\* the lookup table of the seven names: the fields of the variant
TableRow ==
    LET p == made_from[1].parameters
        int(key, default) == IntOf(OptGet(p, key, default))[2]
        xy == Some(<<int("x", Val("int", 0)), int("y", Val("int", 0))>>)
        row(type, coordinates, text, scroll_amount, wait_time) ==
            [action_type |-> type, coordinates |-> coordinates, text |-> text,
             scroll_amount |-> scroll_amount, wait_time |-> wait_time,
             thought |-> made_from[1].thought, metadata |-> << >>]
    IN  CASE MadeLetters = "click_left" ->
                row("CLICK_LEFT", xy, Nothing, Nothing, Nothing)
          [] MadeLetters = "click_right" ->
                row("CLICK_RIGHT", xy, Nothing, Nothing, Nothing)
          [] MadeLetters = "scroll_up" ->
                row("SCROLL_UP", Nothing, Nothing,
                    Some(int("amount", Val("int", 300))), Nothing)
          [] MadeLetters = "scroll_down" ->
                row("SCROLL_DOWN", Nothing, Nothing,
                    Some(int("amount", Val("int", 300))), Nothing)
          [] MadeLetters = "type" ->
                row("TYPE",
                    IF p.x # Nothing /\ p.y # Nothing THEN xy ELSE Nothing,
                    Some(StrOf(OptGet(p, "text", Val("str", "")))),
                    Nothing, Nothing)
          [] MadeLetters = "wait" ->
                row("WAIT", Nothing, Nothing, Nothing,
                    Some(FloatOf(OptGet(p, "seconds", Val("float", 10)))[2]))
          [] MadeLetters = "stop" ->
                row("STOP", Nothing, Nothing, Nothing, Nothing)

\* C23 as stated: from_llm_response returns an Action for every reply whose
\* name is one of the seven, in any case, and raises for every other name.
C23_TotalOnNames ==
    made_by = "from_llm_response"
    => ((MadeLetters \in ActionTypes) <=> (made[1] = "returned"))

\* C23 amended: for a reply whose name is one of the seven, in any case, and
\* whose parameters read by that variant are absent or convertible,
\* from_llm_response returns the variant of the lookup table (x and y
\* defaulting to 0, amount to 300, seconds to 1.0, type's coordinates only
\* when both x and y are given); a parameter that cannot be converted makes
\* it raise; every other name raises ValueError.
C23_LookupTable ==
    made_by = "from_llm_response"
    => /\ (MadeLetters \in ActionTypes /\ ParamsUsable)
          => made = Returned(TableRow)
       /\ (MadeLetters \in ActionTypes /\ ~ParamsUsable)
          => /\ made[1] = "raised"
             /\ made[2] \in {"ValueError", "TypeError"}
       /\ MadeLetters \notin ActionTypes => made = Raised("ValueError")
\* "Scroll_Down" without an amount became scroll_down by 300
C23_Witness ==
    /\ made_by = "from_llm_response"
    /\ made_from[1].action = Some(Name("scroll_down", {1, 2}))
    /\ made_from[1].parameters.amount = Nothing
    /\ made[1] = "returned"
    /\ made[2].action_type = "SCROLL_DOWN"
    /\ made[2].scroll_amount = Some(300)

\* C24: an Action taken through to_dict and then from_dict has the same
\* action_type, coordinates, text, scroll_amount, wait_time, thought and
\* metadata as before.
C24_RoundTrip == restored # Nothing => restored[1] = made[2]

\* C25: no Action is a type without text, and none has coordinates that
\* are not a pair.
C25_Validated ==
    (made # Nothing /\ made[1] = "returned")
    => /\ made[2].action_type = "TYPE" => made[2].text # Nothing
       /\ made[2].coordinates # Nothing => Len(made[2].coordinates[1]) = 2

\* the intent's action_type, "wait" when it has none
GType == OptGet(ground_in[1].intent_reply[2], "action_type", "wait")
\* the intent's target_element, "" when it has none
GTarget == OptGet(ground_in[1].intent_reply[2], "target_element", "")

\* C22: an intent of stop, wait, scroll_up or scroll_down gives that action
\* with no locator call and the context as it was; an intent of click_left
\* or type with a target_element calls the locator with it and, given
\* coordinates, gives that action at them; with no target_element, or with
\* a locator finding nothing, the context and the Action are those of
\* plan_next_action.
C22_Grounding ==
    (ground_out # Nothing /\ ground_in[1].intent_reply[1] = "returned")
    => LET given == ground_in[1]
           got == ground_out[1]
       IN  /\ GType \in {"stop", "wait", "scroll_up", "scroll_down"}
              => /\ ActionTypeMembers[got.action.action_type] = GType
                 /\ got.action.thought = given.intent_reply[2].thought
                 /\ got.located = << >>
                 /\ got.msgs = given.msgs
           /\ (GType \in {"click_left", "type"} /\ GTarget # ""
               /\ given.element_locator # Nothing)
              => got.located = <<GTarget>>
           /\ (GType \in {"click_left", "type"} /\ GTarget # ""
               /\ given.element_locator = Some(Returned(Some(<<3, 4>>))))
              => /\ ActionTypeMembers[got.action.action_type] = GType
                 /\ got.action.coordinates = Some(<<3, 4>>)
                 /\ got.msgs = given.msgs
           /\ (GType \in {"click_left", "type"}
               /\ (GTarget = ""
                   \/ given.element_locator = Some(Returned(Nothing))))
              => [msgs |-> got.msgs, action |-> got.action]
                 = PlanNextAction(given.msgs, given.plan_outcome, given.a)
\* a click_left intent whose target the locator did not find fell back to a
\* plan_next_action that answered with stop
C22_Witness ==
    /\ ground_out # Nothing
    /\ ground_in[1].intent_reply[1] = "returned"
    /\ GType = "click_left"
    /\ ground_out[1].located = <<"button">>
    /\ ground_in[1].element_locator = Some(Returned(Nothing))
    /\ ground_out[1].action = FromLLMResponse("stop")
    /\ Len(ground_out[1].msgs) = Len(ground_in[1].msgs) + 2

\* C26: the executor is started exactly while _started is set; execute and
\* take_screenshot called on an executor that is not started (never
\* started, or closed) raise RuntimeError, make no input and leave it as it
\* is; an input is made and a screenshot is returned only by a started one.
C26_FailFast ==
    /\ driver.started <=> driverState = "started"
    /\ (d_last # Nothing /\ d_last[1].op \in {"execute", "take_screenshot"})
       => /\ d_last[1].before # "started"
             => /\ d_last[1].result = Raised("RuntimeError")
                /\ d_last[1].input = 0
                /\ driverState = d_last[1].before
          /\ d_last[1].before = "started" => d_last[1].result # Raised("RuntimeError")
          /\ (d_last[1].before = "started" /\ d_last[1].op = "execute")
             => d_last[1].result[1] = "returned"
\* execute called after close raised RuntimeError
C26_Witness ==
    /\ d_last # Nothing
    /\ d_last[1].op = "execute"
    /\ d_last[1].before = "closed"
    /\ d_last[1].result = Raised("RuntimeError")
    /\ ~driver.started

\* the grounding call returned a text that parses to an object
LocateParsed ==
    /\ locate_in[1].reply[1] = "returned"
    /\ ParseJsonResponse(locate_in[1].reply[2]).type = "object"
    /\ "found" \in DOMAIN ParseJsonResponse(locate_in[1].reply[2]).dict
\* that object
LDict == ParseJsonResponse(locate_in[1].reply[2]).dict
\* it reports the element found at integer coordinates
FoundAtIntegers ==
    /\ LocateParsed
    /\ LDict.found = Some(TRUE)
    /\ LDict.x # Nothing /\ LDict.x[1].t = "int"
    /\ LDict.y # Nothing /\ LDict.y[1].t = "int"

\* C29: for an image of width w and height h and an element reported found
\* at integers (x, y), locate_element returns
\* (min(max(x, 0), w - 1), min(max(y, 0), h - 1)), a point of
\* [0, w-1] x [0, h-1]; it returns None when the call fails, the reply does
\* not parse to an object or the element is reported not found.
C29_Clamped ==
    located # Nothing
    => /\ FoundAtIntegers
          => LET x == LDict.x[1].v
                 y == LDict.y[1].v
                 w == locate_in[1].width
                 h == locate_in[1].height
             IN  /\ located[1] =
                    Some(<<IF x < 0 THEN 0 ELSE IF x > w - 1 THEN w - 1 ELSE x,
                           IF y < 0 THEN 0 ELSE IF y > h - 1 THEN h - 1 ELSE y>>)
                 /\ located[1][1][1] \in 0..(w - 1)
                 /\ located[1][1][2] \in 0..(h - 1)
       /\ (~LocateParsed \/ LDict.found = Some(FALSE))
          => located[1] = Nothing
\* (-5, 99999) on an 800x600 image gave (0, 599)
C29_Witness ==
    /\ located # Nothing
    /\ locate_in[1].width = 800
    /\ locate_in[1].height = 600
    /\ FoundAtIntegers
    /\ LDict.x[1].v = -5
    /\ LDict.y[1].v = 99999
    /\ located[1] = Some(<<0, 599>>)

\* C31: a step's events come in the order screenshot, perceive, plan,
\* execute, record, and the screenshot of step k+1 is taken only after step
\* k was recorded.
C31_Sequential ==
    /\ (save_trajectory /\ pc = "callback")
       => LastEvents(5) =
          <<"screenshot", "perceive", "plan", "execute", "record">>
    /\ (save_trajectory /\ pc = "perceive" /\ step > 1)
       => Len(T.steps) = step - 1

\* C32: when the planner chose stop, execute made no input and returned
\* true, the stop step is the last recorded step, with success true, and
\* the run that ended by a stop or by a perception reporting completion
\* returns with every step before its last one recorded.
C32_StopRecorded ==
    /\ (save_trajectory /\ pc = "callback" /\ action.action_type = "stop")
       => /\ success
          /\ inputs = 0
          /\ T.steps # << >>
          /\ T.steps[Len(T.steps)].action = "stop"
          /\ T.steps[Len(T.steps)].success
    /\ (save_trajectory /\ pc = "returned" /\ should_stop /\ exc = None
        /\ ~interrupted)
       => Len(T.steps) \in {step - 1, step}

\* C36: between planning calls the planner's context is its system message
\* followed by user and assistant messages in strict alternation, every
\* user message having its reply.
C36_Alternates ==
    pc # "plan"
    => /\ Len(history_messages) % 2 = 1
       /\ \A i \in 2..Len(history_messages) :
             history_messages[i].role =
                 IF i % 2 = 0 THEN "user" ELSE "assistant"

\* C37: once stop() has returned during a run, the run starts no step
\* beyond the one in flight.
C37_StopNotLost == stopped => step = stoppedStep

\* C38: a run called with max_steps = N starts at most N loop iterations.
C38_AtMostN == pc # "idle" => step <= max_steps_arg

\* C39: whenever no run() call is in progress, is_running is false and
\* current_task is empty.
C39_IdleNotRunning ==
    pc \in {"idle"} \cup Terminal => (~is_running /\ current_task = None)
\* C40: after the dispatcher's start() returned without error in browser
\* mode, whatever the url argument (None included), the driver is started,
\* so that a following execute or take_screenshot does not raise the
\* not-started RuntimeError.
C40_StartedAfterStart ==
    (d_last # Nothing /\ d_last[1].op = "ActionExecutor.start"
     /\ d_last[1].result[1] = "returned")
    => driver.started

\* C34: the stages are tried in order, whole text, first fenced block, span
\* from the first { to the last }; the value of the first stage that parses
\* is returned and no later stage is tried; when no stage parses the
\* caller's default is returned, for the planner the decision to wait 2
\* seconds.
C34_FirstStageWins ==
    recovered # Nothing
    => LET c == recovered[1]
           r == c.response
           stage == <<r.whole, r.fenced, r.braces>>
           tried == c.result.tried
           StagesParsing ==
               {n \in 1..3 : stage[n].t \notin {"invalid", "absent"}}
       IN  /\ tried[1] = 1
           /\ \A i \in 1..Len(tried) - 1 : tried[i] < tried[i + 1]
           /\ \A n \in 1..3 :
                 (n \in StagesParsing /\ \A m \in 1..n - 1 : m \notin StagesParsing)
                 => /\ c.result.value = stage[n]
                    /\ tried[Len(tried)] = n
                    /\ \A m \in 1..n : stage[m].t # "absent"
                          => \E i \in 1..Len(tried) : tried[i] = m
           /\ StagesParsing = {}
              => /\ c.result.value = Default(c.caller, r)
                 /\ \A m \in 1..3 : stage[m].t # "absent"
                       => \E i \in 1..Len(tried) : tried[i] = m
                 /\ c.caller = "planner"
                    => /\ c.result.value.v.action = "wait"
                       /\ c.result.value.v.parameters.seconds = 2
\* a text that is a JSON list as a whole and holds an object between its
\* first { and last }: the list is returned and the span is not parsed
C34_Witness ==
    /\ recovered # Nothing
    /\ recovered[1].response.whole = Val("list", 1)
    /\ recovered[1].response.braces.t = "object"
    /\ recovered[1].result = [value |-> Val("list", 1), tried |-> <<1>>]

\* C35: two runs given the same perception results, action names and
\* parameters and driver outcomes, and different thoughts, execute the same
\* actions with the same outcomes, are at the same step and have ended, or
\* not, in the same way.
C35_ThoughtIgnored ==
    /\ twin.a.step = twin.b.step
    /\ twin.a.ended = twin.b.ended
    /\ Len(twin.a.log) = Len(twin.b.log)
    /\ \A i \in 1..Len(twin.a.log) :
          /\ [twin.a.log[i].action EXCEPT !.thought = Nothing]
             = [twin.b.log[i].action EXCEPT !.thought = Nothing]
          /\ twin.a.log[i].success = twin.b.log[i].success
\* both runs clicked, then stopped, one told "stop" as its thought in the
\* first step and the other nothing
C35_Witness ==
    /\ twin.a.ended = "stop"
    /\ twin.a.step = 2
    /\ twin.a.log[1].action.action_type = "CLICK_LEFT"
    /\ twin.a.log[1].action.thought = Some("stop")
    /\ twin.b.log[1].action.thought = Nothing
    /\ twin.b.ended = "stop"

\* C33: the runs of one agent never overlap: while a run is in a step, the
\* other run() called on the agent has started no step yet or has finished,
\* and the driver calls of the two runs are not interleaved.
C33_NoOverlap ==
    /\ \A t \in {1, 2} :
          agent_shared.pc[t] = "step"
          => \/ agent_shared.step[3 - t] = 0
             \/ agent_shared.pc[3 - t] = "done"
    /\ \A i, j, k \in 1..Len(agent_shared.calls) :
          (i < j /\ j < k /\ agent_shared.calls[i][1] = agent_shared.calls[k][1])
          => agent_shared.calls[j][1] = agent_shared.calls[i][1]

====
